---- MODULE Spec2Model ----
(***************************************************************************)
(* n8n-nodes-playwright-cdp: the human-emulation engine (humanEmulation)   *)
(* and its interception layer (createHumanizedPage).                       *)
(*                                                                         *)
(* Numbers.  A JavaScript number is modelled in fixed point: one pixel is  *)
(* Unit model units, so a coordinate of 202.5 px is 2025.  A random draw   *)
(* Math.random() is a numerator r over PerMille (0 <= r < PerMille).       *)
(***************************************************************************)
EXTENDS Integers, Sequences, FiniteSets, TLC

\* ------------------------------------------------------------------ bounds
\* Number of wrapper / engine calls the user code makes in one behaviour.
MaxCalls == 2
\* Stands for DEFAULTS.moveSteps (25 in the source): a path has MoveSteps + 1 points.
MoveSteps == 2
\* Stands for the 53 significant bits of a JavaScript number: the results of
\* the arithmetic of humanScroll are rounded to Precision significant bits.
Precision == 10
\* Number of input items of one execution of the node.
MaxItems == 2
\* Number of pages the user code of one item obtains.
MaxPages == 2

\* --------------------------------------------------------------- numbers
Unit == 10
PerMille == 1000

Point(px, py) == [x |-> px, y |-> py]

\* Math.abs
Abs(v) == IF v < 0 THEN 0 - v ELSE v

\* Math.round: the nearest integer pixel, halves rounded towards +infinity.
MathRound(v) == ((2 * v + Unit) \div (2 * Unit)) * Unit

\* Math.sqrt, to the model's resolution: the floor of the square root, found
\* by its hundreds and then its units.
MathSqrt(n) ==
    LET h == CHOOSE a \in 0..463 : (100 * a) * (100 * a) <= n /\ n < (100 * a + 100) * (100 * a + 100)
    IN  CHOOSE k \in (100 * h)..(100 * h + 99) : k * k <= n /\ n < (k + 1) * (k + 1)

\* randomBetween(min, max) for the draw r of Math.random().
randomBetween(min, max, r) == (r * (max - min)) \div PerMille + min

\* The spacing of the numbers of Precision significant bits around v >= 0.
\* One model unit is the finest spacing the model has.
Ulp(v) ==
    CHOOSE u \in {2 ^ k : k \in 0..20} :
        v < u * 2 ^ Precision /\ (u = 1 \/ v >= (u \div 2) * 2 ^ Precision)

\* The result of an arithmetic operation whose exact value is v: the nearest
\* number of Precision significant bits, a tie going to the even one.
FRound(v) ==
    LET u == Ulp(Abs(v))
        q == v \div u
        r == v - q * u
    IN  IF 2 * r < u THEN q * u
        ELSE IF 2 * r > u THEN (q + 1) * u
        ELSE IF q % 2 = 0 THEN q * u ELSE (q + 1) * u

\* The largest power of two that is at most k >= 1.
Binade(k) == CHOOSE b \in {2 ^ j : j \in 0..20} : b <= k /\ k < 2 * b

\* Math.ceil(a / c) for a >= 0 and c > 0, the quotient being rounded to
\* Precision significant bits: a quotient just above the integer k rounds to k.
CeilOfQuotient(a, c) ==
    LET k == a \div c
        rem == a - k * c
    IN  IF rem = 0 THEN k
        ELSE IF k >= 1 /\ rem * 2 ^ Precision <= c * Binade(k) THEN k
        ELSE k + 1

\* DEFAULTS
DEFAULTS ==
    [mouseSpeed  |-> [min |-> 100, max |-> 300],
     typingDelay |-> [min |-> 50, max |-> 150],
     scrollDelay |-> [min |-> 50, max |-> 100],
     moveSteps   |-> MoveSteps]

\* ------------------------------------------------------------ path planner
\* bezierPoint(t, p0, p1, p2, p3) at t = i / steps.  The four weights
\* mt3, 3*mt2*t, 3*mt*t2, t3 are taken over the common denominator steps^3.
bezierPoint(i, steps, p0, p1, p2, p3) ==
    LET mt == steps - i
        w0 == mt * mt * mt
        w1 == 3 * mt * mt * i
        w2 == 3 * mt * i * i
        w3 == i * i * i
        d  == steps * steps * steps
    IN  Point((w0 * p0.x + w1 * p1.x + w2 * p2.x + w3 * p3.x) \div d,
              (w0 * p0.y + w1 * p1.y + w2 * p2.y + w3 * p3.y) \div d)

\* The two control points of generateMousePath.  rnd.o1, rnd.o2 are the draws
\* of randomBetween(0.2, 0.4); rnd.a1, rnd.a2 are the drawn angles, given by
\* their cosine and sine (per mille).
ControlPoints(start, end, rnd) ==
    LET dx == end.x - start.x
        dy == end.y - start.y
        distance == MathSqrt(dx * dx + dy * dy)
        offset1 == (randomBetween(200, 400, rnd.o1) * distance) \div PerMille
        offset2 == (randomBetween(200, 400, rnd.o2) * distance) \div PerMille
    IN  [cp1 |-> Point(start.x + dx \div 4 + (rnd.a1.cos * offset1) \div PerMille,
                       start.y + dy \div 4 + (rnd.a1.sin * offset1) \div PerMille),
         cp2 |-> Point(start.x + (3 * dx) \div 4 + (rnd.a2.cos * offset2) \div PerMille,
                       start.y + (3 * dy) \div 4 + (rnd.a2.sin * offset2) \div PerMille)]

\* Fault injection for C17: a path point that is pushed without rounding.
JitteredPointRaw(point, jx, jy) == Point(point.x + jx, point.y + jy)

\* One pushed path point: the curve point plus jitter, rounded (lines 89-93).
JitteredPoint(point, jx, jy) ==
    Point(MathRound(point.x + jx), MathRound(point.y + jy))

\* Fault injection for C23: a loop that stops before the last point.
generateMousePathShort(start, end, steps, rnd) ==
    [k \in 1..steps |->
        JitteredPoint(bezierPoint(k - 1, steps, start, ControlPoints(start, end, rnd).cp1,
                                  ControlPoints(start, end, rnd).cp2, end),
                      rnd.jx[k - 1], rnd.jy[k - 1])]

\* generateMousePath(start, end, steps).  rnd.jx[i], rnd.jy[i] are the draws of
\* randomBetween(-1, 1) for point i.  The result is the sequence path[1..steps+1].
generateMousePath(start, end, steps, rnd) ==
    LET cps == ControlPoints(start, end, rnd)
    IN  [k \in 1..(steps + 1) |->
            JitteredPoint(bezierPoint(k - 1, steps, start, cps.cp1, cps.cp2, end),
                          rnd.jx[k - 1], rnd.jy[k - 1])]

\* Fault injection for C16: a target point drawn from the whole box.
RandomPointAnywhere(box, rx, ry) ==
    Point(box.x + randomBetween(0, box.width, rx), box.y + randomBetween(0, box.height, ry))

\* getRandomPointInElement, after the bounding box is known (lines 108-115).
RandomPointInBox(box, rx, ry) ==
    LET marginX == box.width \div 10
        marginY == box.height \div 10
    IN  Point(box.x + marginX + randomBetween(0, box.width - 2 * marginX, rx),
              box.y + marginY + randomBetween(0, box.height - 2 * marginY, ry))

\* ------------------------------------------------------- inputs of the model
\* The pages (actors) of the browser context.
Pages == {"p1"}

\* HumanEmulationConfig values handed to createHumanizedPage (types.ts);
\* a range that is absent is the empty record.
Absent == [min |-> -1, max |-> -1]
Configs ==
    {[enabled |-> TRUE,  mouseSpeed |-> Absent, typingDelay |-> Absent, scrollDelay |-> Absent],
     [enabled |-> FALSE, mouseSpeed |-> Absent, typingDelay |-> Absent, scrollDelay |-> Absent]}
\* Enabled configurations in which each range is supplied or left out.
AnyConfigs ==
    {[enabled |-> TRUE, mouseSpeed |-> ms, typingDelay |-> td, scrollDelay |-> sd] :
        ms \in {Absent, [min |-> 10, max |-> 20]},
        td \in {Absent, [min |-> 5, max |-> 7]},
        sd \in {Absent, [min |-> 1, max |-> 2]}}
NoConfig == [enabled |-> FALSE, mouseSpeed |-> Absent, typingDelay |-> Absent, scrollDelay |-> Absent]

Selectors == {"#a", "#b"}
\* A text is the sequence of its characters.
Texts == {<< >>, <<"h", ".">>}
\* Click options; a member that is undefined is "" (button) or 0 (clickCount).
NoOptions == [button |-> "", clickCount |-> 0]
ClickOptions == {NoOptions, [button |-> "right", clickCount |-> 2]}
NoArgs == [selector |-> "", text |-> << >>, options |-> NoOptions]

\* Capability names requested on a page: three intercepted ones, a method that
\* is passed through (goto) and a member that is not a function (keyboard).
Props == {"click", "type", "fill", "goto", "keyboard"}
FunctionProps == {"click", "type", "fill", "goto"}

\* What the actor answers.  page.$ gives an element handle or null;
\* boundingBox gives the element's box or null; any primitive may reject.
NoElement == [handle |-> ""]
ElementFor(selector) == [handle |-> selector]
NoBox == [x |-> 0, y |-> 0, width |-> -1, height |-> -1]
BoxOf(element) ==
    CASE element.handle = "#a" ->
            [x |-> 200 * Unit, y |-> 150 * Unit, width |-> 30 * Unit, height |-> 10 * Unit]
      [] element.handle = "#zero" ->
            [x |-> 10 * Unit, y |-> 20 * Unit, width |-> 0, height |-> 0]
      [] element.handle = "#frac" ->
            [x |-> 123, y |-> 7, width |-> 10 * Unit, height |-> 1 * Unit]
      [] element.handle = "#off" ->
            [x |-> 0 - 505, y |-> 0 - 20 * Unit, width |-> 400 * Unit, height |-> 3 * Unit]
      [] OTHER ->
            [x |-> 40 * Unit, y |-> 60 * Unit, width |-> 25 * Unit, height |-> 20 * Unit]
\* An Error: its message, and the selector the message quotes (if any).
Error(message, detail) == [message |-> message, detail |-> detail]
ActorErrors == {Error("Target closed", "")}
NoError == Error("", "")
Ok == [kind |-> "ok", error |-> NoError]
Reject(e) == [kind |-> "reject", error |-> e]
Null == [kind |-> "null", error |-> NoError]
Settlements == {Ok} \cup {Reject(e) : e \in ActorErrors}

\* Draws of Math.random() used by one emulated click: the target point and
\* the path (the control points' offsets and angles, an angle given by its
\* cosine and sine per mille, and the jitter of each point).
\* Jitter draws (x, y) of randomBetween(-1, 1); point i of a path drawn with
\* pattern k gets JitterCycle[((k + i) % 3) + 1].
JitterCycle ==
    <<[jx |-> 0, jy |-> 0],
      [jx |-> 0 - Unit, jy |-> Unit \div 2],
      [jx |-> Unit \div 2, jy |-> 0 - Unit]>>
JitterOf(k, i) == JitterCycle[((k + i) % Len(JitterCycle)) + 1]
PathDraw(o1, o2, a1, a2, k) ==
    [o1 |-> o1, o2 |-> o2, a1 |-> a1, a2 |-> a2,
     jx |-> [i \in 0..MoveSteps |-> JitterOf(k, i).jx],
     jy |-> [i \in 0..MoveSteps |-> JitterOf(k, i).jy]]
\* The draws of one click: rx, ry for the target point, then those of the path.
ClickDraws ==
    {[rx |-> 0, ry |-> 0,
      path |-> PathDraw(0, 500, [cos |-> 1000, sin |-> 0], [cos |-> 707, sin |-> -707], 0)],
     [rx |-> 999, ry |-> 500,
      path |-> PathDraw(999, 0, [cos |-> 924, sin |-> 383], [cos |-> 1000, sin |-> 0], 1)],
     [rx |-> 500, ry |-> 999,
      path |-> PathDraw(500, 500, [cos |-> 707, sin |-> -707], [cos |-> 924, sin |-> 383], 2)]}
\* The elements and draws for the target point of one click alone.
AnySelectors == {"#a", "#b", "#zero", "#frac", "#off"}
AnyClickDraws ==
    {[rx |-> rx, ry |-> ry,
      path |-> PathDraw(500, 500, [cos |-> 924, sin |-> 383], [cos |-> 707, sin |-> -707],
                        (rx + ry) % 3)] : rx \in {0, 1, 500, 999}, ry \in {0, 500, 999}}
\* The draws of one delay: r for the delay (or the speed), f for the factor
\* by which the delay after a punctuation character is stretched.
DelayDraws == {[r |-> 500, f |-> 0]}
AnyDelayDraws == {[r |-> 0, f |-> 0], [r |-> 999, f |-> 999]}
ChunkDraws == {700}
ScrollAmounts == {0, 300 * Unit}
\* Amounts and chunk-size draws for the arithmetic of humanScroll alone; an
\* amount is a number of Precision significant bits.
AnyAmounts == {FRound(a * Unit) : a \in {0, 1, 50, 149, 300, 1000}}
AnyChunkDraws == {0, 1, 449, 500, 700, 999}
Directions == {"up", "down"}

\* ------------------------------------------------------ interception layer
\* A reference held by the user code: a page, or the Proxy around one.
Page(p) == [proxy |-> FALSE, id |-> p, config |-> NoConfig]
Proxy(page, config) == [proxy |-> TRUE, id |-> page.id, config |-> config]
Refs == {Page(p) : p \in Pages} \cup {Proxy(Page(p), cfg) : p \in Pages, cfg \in Configs}

\* Fault injection for C1: a createHumanizedPage without the early return of
\* line 278, which wraps whatever the configuration says.
createHumanizedPageAlways(page, config) == Proxy(page, config)

\* createHumanizedPage(page, config)
createHumanizedPage(page, config) ==
    IF ~config.enabled THEN page ELSE Proxy(page, config)

\* A member read from a reference.  kind is "closure" (one of the three
\* emulated closures), "function" (a method, this taken from the receiver of
\* the call), "bound" (a method bound to this) or "value".
Member(kind, name, this, config) ==
    [kind |-> kind, name |-> name, this |-> this, config |-> config]
NoThis == [proxy |-> FALSE, id |-> "", config |-> NoConfig]

\* target[prop]: the page's own member.
PageMember(target, prop) ==
    IF prop \in FunctionProps
    THEN Member("function", prop, NoThis, NoConfig)
    ELSE Member("value", prop, target, NoConfig)

\* value.bind(target)
Bind(value, target) == Member("bound", value.name, target, NoConfig)

\* Fault injection for C2: a handler that does not intercept fill.
ProxyGetWithoutFill(target, prop, config) ==
    LET value == PageMember(target, prop)
    IN  IF prop = "click" THEN Member("closure", "humanClick", target, config)
        ELSE IF prop = "type" THEN Member("closure", "humanType", target, config)
        ELSE IF value.kind = "function" THEN Bind(value, target)
        ELSE value

\* Fault injection for C3: a handler that hands a method back without
\* binding it, so that it runs with the Proxy as its this.
ProxyGetUnbound(target, prop, config) ==
    IF prop = "click" THEN Member("closure", "humanClick", target, config)
    ELSE IF prop = "type" THEN Member("closure", "humanType", target, config)
    ELSE IF prop = "fill" THEN Member("closure", "humanFill", target, config)
    ELSE PageMember(target, prop)

\* handler.get(target, prop) of the Proxy (lines 283-312).
ProxyGet(target, prop, config) ==
    LET value == PageMember(target, prop)
    IN  IF prop = "click" THEN Member("closure", "humanClick", target, config)
        ELSE IF prop = "type" THEN Member("closure", "humanType", target, config)
        ELSE IF prop = "fill" THEN Member("closure", "humanFill", target, config)
        ELSE IF value.kind = "function" THEN Bind(value, target)
        ELSE value

\* ref[prop] for a reference of either kind.
Get(ref, prop) ==
    IF ref.proxy THEN ProxyGet(Page(ref.id), prop, ref.config) ELSE PageMember(ref, prop)

\* The this of a call receiver.member(...).
ThisOf(member, receiver) == IF member.kind = "bound" THEN member.this ELSE receiver

\* ---------------------------------------------------------------- the state
\* A primitive issued to the actor.  op is one of "$", "boundingBox", "move",
\* "click", "press", "type", "wheel", or "native" (a method of the page itself,
\* called with this = the reference `this`).
Prim(op, page, x, y, key, opts) ==
    [op |-> op, page |-> page, x |-> x, y |-> y, key |-> key, opts |-> opts, this |-> NoThis]
Native(method, this, args) ==
    [op |-> "native", page |-> this.id, x |-> 0, y |-> 0, key |-> method,
     opts |-> args.options, this |-> this]

NoPoint == Point(-1, -1)
NoOrigin == [page |-> "", config |-> NoConfig, wrapped |-> FALSE]

\* The frame of a call.  origin, prop and args are the call as the user code
\* wrote it: the page, whether the reference came from createHumanizedPage
\* (and with which config), the capability and the arguments.  fn, page,
\* config, selector, text, options are the function that runs and the
\* parameters it received; the rest are its locals.  issued and settled list
\* the primitives it issued to the actor and what the actor answered.
IdleCall ==
    [pc |-> "idle", origin |-> NoOrigin, prop |-> "", args |-> NoArgs,
     fn |-> "", page |-> "", config |-> NoConfig,
     selector |-> "", text |-> << >>, options |-> NoOptions,
     direction |-> "", amount |-> 0, chunkSize |-> 0,
     element |-> NoElement, targetPoint |-> NoPoint, start |-> NoPoint, path |-> << >>,
     i |-> 0, k |-> 0, issued |-> << >>, planAt |-> 0, settled |-> << >>,
     error |-> NoError, result |-> NoThis, moved |-> NoPoint, delay |-> 0]

\* ------------------------------------------------------------ node values
\* The parameters of one input item (part_001, lines 129-137).
EndPoints == {"", "ws://browser"}
Codes == {"code", "syntax error"}
ExecutionTimeouts == {0, 60000}
\* The other parameters of an item vary only where its user code runs.
Parameters ==
    {p \in [cdpEndpoint : EndPoints, code : Codes, emulateHuman : BOOLEAN,
            executionTimeout : ExecutionTimeouts] :
        (p.cdpEndpoint = "" \/ p.code = "syntax error") =>
            /\ ~p.emulateHuman
            /\ p.executionTimeout = 0
            /\ p.cdpEndpoint = "" => p.code = "code"}
NoParameters ==
    [cdpEndpoint |-> "", code |-> "", emulateHuman |-> FALSE, executionTimeout |-> 0]

\* const humanConfig = { enabled: emulateHuman } (line 171).
HumanConfig(emulateHuman) ==
    [enabled |-> emulateHuman, mouseSpeed |-> Absent, typingDelay |-> Absent,
     scrollDelay |-> Absent]

\* A value that is thrown: an Error (isError) with its message, written as
\* prefix + message, the line its stack names (0: none) and, for the timeout
\* error, the milliseconds in its message; or a value that is no Error.
JsError(prefix, message, lineNumber, ms) ==
    [isError |-> TRUE, prefix |-> prefix, message |-> message,
     lineNumber |-> lineNumber, ms |-> ms]
NotAnError(value) ==
    [isError |-> FALSE, prefix |-> "", message |-> value, lineNumber |-> 0, ms |-> 0]
NoJsError == NotAnError("")
\* new Error(`Execution timeout exceeded (${timeout}ms)`) (line 352).
TimeoutError(timeout) == JsError("", "Execution timeout exceeded (ms)", 0, timeout)
\* What the user code throws.
UserErrors ==
    {JsError("", "boom", 3, 0), JsError("", "navigation timeout exceeded", 0, 0),
     NotAnError("thrown string")}
\* error.message.includes('timeout exceeded') (line 361).
IncludesTimeoutExceeded(error) ==
    error.message \in {"Execution timeout exceeded (ms)", "navigation timeout exceeded"}

\* What the user code returns: undefined, or an array of items.
NoResult == [kind |-> "undefined", items |-> << >>]
UserResults == {NoResult, [kind |-> "array", items |-> <<"a", "b">>]}
\* normalizeResult(result) (lines 385-424): the json of each output item.
normalizeResult(result) == IF result.kind = "undefined" THEN <<"{}">> ELSE result.items

\* The state of a promise.
Pending == [state |-> "pending", value |-> NoResult, reason |-> NoJsError]
Fulfilled(value) == [state |-> "fulfilled", value |-> value, reason |-> NoJsError]
Rejected(reason) == [state |-> "rejected", value |-> NoResult, reason |-> reason]

\* The catch block of executeUserCode (lines 358-379).
CatchUserError(error) ==
    IF error.isError
    THEN IF IncludesTimeoutExceeded(error) THEN error
         ELSE JsError("Error in user code: ", error.message, error.lineNumber, 0)
    ELSE error

\* The promise of executeUserCode once executePromise has settled as s, the
\* timer not having fired (lines 344-347, 356-379).
UserSettledOutcome(timeout, s) ==
    IF timeout <= 0 THEN s
    ELSE IF s.state = "fulfilled" THEN s
    ELSE Rejected(CatchUserError(s.reason))

\* Fault injection for C20: a timer that ends the execution whenever it fires.
TimerFiredOutcomeAlways(timeout, outcome) == Rejected(TimeoutError(timeout))

\* The promise of executeUserCode once the timer has fired (lines 350-362):
\* Promise.race has settled already, or settles now with the timeout error,
\* which the catch block passes on as it is.
TimerFiredOutcome(timeout, outcome) ==
    IF outcome.state = "pending" THEN Rejected(CatchUserError(TimeoutError(timeout)))
    ELSE outcome

\* Fault injection for C19: a patch that does not ask for the flag.
PatchNewPageAlways(context, emulateHuman) == [context EXCEPT !.layers = @ + 1]

\* if (emulateHuman) { context.newPage = async () => createHumanizedPage(
\* await originalNewPage(), humanConfig) } (lines 174-180).  A context is
\* the number of such closures around its own newPage.
PatchNewPage(context, emulateHuman) ==
    IF emulateHuman THEN [context EXCEPT !.layers = @ + 1] ELSE context

\* A reference the user code holds: what it refers to, the page behind it,
\* the number of Proxies around that page and the way it was obtained.
Held(ref, id, wraps, via) == [ref |-> ref, id |-> id, wraps |-> wraps, via |-> via]
RECURSIVE NewPageResult(_, _, _)
\* What context.newPage() resolves to for the new page `page`: each closure
\* of lines 176-179 hands the page of the one below to createHumanizedPage.
NewPageResult(page, layers, config) ==
    IF layers = 0 THEN Held(page, page.id, 0, "newPage")
    ELSE LET below == NewPageResult(page, layers - 1, config)
             ref == createHumanizedPage(below.ref, config)
         IN  Held(ref, page.id, below.wraps + (IF ref = below.ref THEN 0 ELSE 1), "newPage")

\* The execution of the user code of one item: the parameters it runs under,
\* the browser context of its connection, the user code (user: its position;
\* executePromise), the timer of line 351, the promise of executeUserCode,
\* the references the user code holds and the number of pages it created.
NoRun ==
    [params |-> NoParameters, context |-> [layers |-> 0], user |-> "none",
     executePromise |-> Pending, timer |-> "none", outcome |-> Pending,
     refs |-> << >>, created |-> 0, connection |-> "none", closes |-> 0]

\* new NodeOperationError(node, error, { itemIndex }).
NodeOperationError(error, itemIndex) == [error |-> error, itemIndex |-> itemIndex]
NoNodeError == NodeOperationError(NoJsError, -1)
\* An entry of returnData: the json of a result, or { error: message }.
OutputItem(json, itemIndex) ==
    [kind |-> "json", json |-> json, error |-> NoJsError, pairedItem |-> itemIndex]
ErrorItem(error, itemIndex) ==
    [kind |-> "error", json |-> "", error |-> error, pairedItem |-> itemIndex]

Items == 0..(MaxItems - 1)
\* execute(): its position, the input items, continueOnFail(), the loop
\* variable, `browser` of the current item, returnData, the error that is
\* thrown once the finally block has run, and the run of each item.
IdleNode ==
    [pc |-> "idle", items |-> 0, continueOnFail |-> FALSE, itemIndex |-> 0,
     browser |-> "null", returnData |-> << >>, error |-> NoNodeError,
     runs |-> [i \in Items |-> NoRun]]

VARIABLES
    lastMousePosition,  \* the module-level `let lastMousePosition` (line 121)
    calls,              \* per call of the user code: its frame
    node                \* the execution of the node (part_001)

vars == <<lastMousePosition, calls, node>>

CallIds == 1..MaxCalls

Init ==
    /\ lastMousePosition = Point(100 * Unit, 100 * Unit)
    /\ calls = [c \in CallIds |-> IdleCall]
    /\ node = IdleNode

\* ------------------------------------------------------------ small helpers
Issue(call, prim) == [call EXCEPT !.issued = Append(@, prim), !.delay = 0]
Answer(call, r) == [call EXCEPT !.settled = Append(@, r)]
\* Fault injection for C10: a failure that is translated on its way out.
ThrowTranslated(call, err) ==
    [call EXCEPT !.pc = "failed", !.error = Error("Emulation failed", err.message)]

\* A rejected await, or a throw: the async function ends with that error.
Throw(call, err) == [call EXCEPT !.pc = "failed", !.error = err]
Return(call) == [call EXCEPT !.pc = "done", !.delay = 0]
\* a || b for a string / a number that may be undefined
OrString(a, b) == IF a = "" THEN b ELSE a
OrNumber(a, b) == IF a = 0 THEN b ELSE a
\* Math.ceil(a / b) and Math.min
Ceil(a, b) == 0 - ((0 - a) \div b)
Min(a, b) == IF a < b THEN a ELSE b
Ended(c) == calls[c].pc \in {"done", "failed", "fulfilled", "rejected"}
InFlight(c) == calls[c].pc # "idle" /\ ~Ended(c)
\* Calls are numbered in the order in which the user code makes them.
NextCall(c) == calls[c].pc = "idle" /\ (IF c = 1 THEN TRUE ELSE calls[c - 1].pc # "idle")

\* Fault injection for C5: a check that takes every answer for an element.
NeverMissing(r) == FALSE

\* if (!element) / if (!box): the actor answered null (lines 160, 104).
Missing(r) == r.kind = "null"

\* The options humanClick receives: the closure's for click; humanType and
\* humanFill call humanClick(page, selector, config) (lines 200, 230).
ClickOptionsOf(call) == IF call.fn = "humanClick" THEN call.options ELSE NoOptions

\* Fault injection for C18: a merge that always takes the default.
OrRangeDefault(a, b) == b

\* config.range || DEFAULTS.range
OrRange(a, b) == IF a = Absent THEN b ELSE a

\* The ranges a call uses (lines 127, 197, 239, 259).
SpeedOf(config) == OrRange(config.mouseSpeed, DEFAULTS.mouseSpeed)
TypingDelayOf(config) == OrRange(config.typingDelay, DEFAULTS.typingDelay)
ScrollDelayOf(config) == OrRange(config.scrollDelay, DEFAULTS.scrollDelay)

Max(a, b) == IF a > b THEN a ELSE b
\* The delay, in milliseconds, before the move to `point` (lines 133-137).
MoveDelay(prev, point, speed, d) ==
    LET dist == MathSqrt((point.x - prev.x) * (point.x - prev.x)
                         + (point.y - prev.y) * (point.y - prev.y))
    IN  Max(1, (dist * 100) \div (randomBetween(speed.min, speed.max, d.r) * Unit))
\* The characters after which the delay is stretched (lines 212, 243).
Punctuation == {".", ",", "!", "?", " ", "\n"}
\* Fault injection for C25: a delay that is not stretched.
CharDelayFlat(char, typingDelay, d) == randomBetween(typingDelay.min, typingDelay.max, d.r)

\* The delay after a character (lines 211-214, 242-245).
CharDelay(char, typingDelay, d) ==
    LET delay == randomBetween(typingDelay.min, typingDelay.max, d.r)
    IN  IF char \in Punctuation
        THEN (delay * randomBetween(1500, 2500, d.f)) \div PerMille
        ELSE delay
\* randomSleep(min, max) (lines 32-34).
randomSleep(min, max, d) == randomBetween(min, max, d.r)
\* A frame that waits for `delay` milliseconds at position pc.
Sleep(call, pc, delay) == [call EXCEPT !.pc = pc, !.delay = delay]

\* The click primitive humanClick issues (lines 177-180).
ClickPrim(call) ==
    Prim("click", call.page, call.targetPoint.x, call.targetPoint.y, "",
         [button |-> OrString(ClickOptionsOf(call).button, "left"),
          clickCount |-> OrNumber(ClickOptionsOf(call).clickCount, 1)])
MovePrim(call, point) == Prim("move", call.page, point.x, point.y, "", NoOptions)
QueryPrim(call) == Prim("$", call.page, 0, 0, call.selector, NoOptions)
BoxPrim(call) == Prim("boundingBox", call.page, 0, 0, call.element.handle, NoOptions)

\* ------------------------------------------------------------------ actions
\* The frame in which a closure of the Proxy runs its primitive (lines
\* 288-304): humanClick(target, selector, config, options),
\* humanType(target, selector, text, config, options) or
\* humanFill(target, selector, value, config), up to the first await, which is
\* page.$(selector) in humanClick (line 159).
ClosureCall(base, m, args) ==
    LET call == [base EXCEPT !.pc = "a$", !.fn = m.name, !.page = m.this.id,
                             !.config = m.config, !.selector = args.selector,
                             !.text = IF m.name = "humanClick" THEN << >> ELSE args.text,
                             !.options = IF m.name = "humanFill" THEN NoOptions
                                         ELSE args.options]
    IN  Issue(call, QueryPrim(call))

\* A member that is no closure of the Proxy is the page's own: a method runs
\* in the actor, a value is handed back.
MemberCall(base, m, ref, args) ==
    IF m.kind = "value"
    THEN [base EXCEPT !.pc = "done", !.fn = "value", !.page = m.this.id, !.result = m.this]
    ELSE Issue([base EXCEPT !.pc = "done", !.fn = "native", !.page = ThisOf(m, ref).id],
               Native(m.name, ThisOf(m, ref), args))

\* What ref.prop(args) does, for a reference of either kind.
CallOn(base, ref, prop, args) ==
    LET m == Get(ref, prop)
    IN  IF m.kind = "closure" THEN ClosureCall(base, m, args) ELSE MemberCall(base, m, ref, args)

\* The user code calls prop(args) on page p, either on the page itself or on
\* what createHumanizedPage(page, config) returned for it.
Invoke(c, p, config, wrapped, prop, args) ==
    /\ NextCall(c)
    /\ LET ref == IF wrapped THEN createHumanizedPage(Page(p), config) ELSE Page(p)
           base == [IdleCall EXCEPT !.origin = [page |-> p, config |-> config, wrapped |-> wrapped],
                                    !.prop = prop, !.args = args]
       IN  calls' = [calls EXCEPT ![c] = CallOn(base, ref, prop, args)]
    /\ UNCHANGED lastMousePosition
    /\ UNCHANGED node

\* humanClick resumes from page.$ (lines 159-165): a null element throws,
\* otherwise getRandomPointInElement asks for the bounding box (line 103).
ElementSettled(c, r) ==
    /\ calls[c].pc = "a$"
    /\ LET call == Answer(calls[c], r)
           found == [call EXCEPT !.pc = "aBox", !.element = ElementFor(call.selector)]
       IN  calls' = [calls EXCEPT ![c] =
             IF r.kind = "reject" THEN Throw(call, r.error)
             ELSE IF Missing(r) THEN Throw(call, Error("Element not found", call.selector))
             ELSE Issue(found, BoxPrim(found))]
    /\ UNCHANGED lastMousePosition
    /\ UNCHANGED node

\* Fault injection for C4: a plan that starts at the initial position whatever
\* lastMousePosition holds.
PlanPathFromInitial(start, target, rnd) ==
    generateMousePath(Point(100 * Unit, 100 * Unit), target, DEFAULTS.moveSteps, rnd)

\* The path humanClick plans (line 168).
PlanPath(start, target, rnd) == generateMousePath(start, target, DEFAULTS.moveSteps, rnd)

\* Fault injection for C8: a planning step that waits while another call is
\* driving the pointer along its path.
BoxSettledLocked(c, r, draw) ==
    /\ calls[c].pc = "aBox"
    /\ \A d \in CallIds \ {c} : calls[d].pc \notin {"aMove", "tMove"}
    /\ LET call == Answer(calls[c], r)
           target == RandomPointInBox(BoxOf(call.element), draw.rx, draw.ry)
           path == PlanPath(lastMousePosition, target, draw.path)
           planned == [call EXCEPT !.pc = "aMove", !.targetPoint = target,
                                   !.start = lastMousePosition, !.path = path,
                                   !.planAt = Len(call.issued), !.i = 0]
       IN  calls' = [calls EXCEPT ![c] =
             IF r.kind = "reject" THEN Throw(call, r.error)
             ELSE IF Missing(r) THEN Throw(call, Error("Element has no bounding box", ""))
             ELSE Issue(planned, MovePrim(planned, path[1]))]
    /\ UNCHANGED lastMousePosition
    /\ UNCHANGED node

\* humanClick resumes from boundingBox (lines 103-116, 165-171): no box throws;
\* otherwise the target is drawn, the path is planned from lastMousePosition
\* and moveMouseAlongPath issues the move to its first point (i = 0, no delay).
BoxSettled(c, r, draw) ==
    /\ calls[c].pc = "aBox"
    /\ LET call == Answer(calls[c], r)
           target == RandomPointInBox(BoxOf(call.element), draw.rx, draw.ry)
           path == PlanPath(lastMousePosition, target, draw.path)
           planned == [call EXCEPT !.pc = "aMove", !.targetPoint = target,
                                   !.start = lastMousePosition, !.path = path,
                                   !.planAt = Len(call.issued), !.i = 0]
       IN  calls' = [calls EXCEPT ![c] =
             IF r.kind = "reject" THEN Throw(call, r.error)
             ELSE IF Missing(r) THEN Throw(call, Error("Element has no bounding box", ""))
             ELSE Issue(planned, MovePrim(planned, path[1]))]
    /\ UNCHANGED lastMousePosition
    /\ UNCHANGED node

\* Fault injection for C9: an update after every move of the path.
UpdatedPositionEachMove(path, i, last) == IF i >= 1 /\ i <= Len(path) THEN path[i] ELSE last

\* Fault injection for C6: an update that keeps the first point of the path.
UpdatedPositionFirst(path, i, last) ==
    IF i >= Len(path) /\ Len(path) > 0 THEN path[1] ELSE last

\* lastMousePosition once i points of the path have been moved to and the
\* loop has been left or not (lines 129, 144-146).
UpdatedPosition(path, i, last) ==
    IF i >= Len(path) /\ Len(path) > 0 THEN path[Len(path)] ELSE last

\* generateMousePath(start, end, steps) is called on its own (lines 60-97);
\* the frame keeps the arguments, the draws and the path returned.
Plan(c, start, end, steps, rnd) ==
    /\ NextCall(c)
    /\ calls' = [calls EXCEPT ![c] =
                   Return([IdleCall EXCEPT !.fn = "generateMousePath", !.start = start,
                                           !.targetPoint = end, !.k = steps, !.args = rnd,
                                           !.path = generateMousePath(start, end, steps, rnd)])]
    /\ UNCHANGED lastMousePosition
    /\ UNCHANGED node

\* moveMouseAlongPath(page, path, config) is called on its own (lines
\* 126-147): the move to the first point is issued without a delay; for an
\* empty path the function returns at once and writes nothing.
MoveMouseAlongPath(c, p, path, config) ==
    /\ NextCall(c)
    /\ LET call == [IdleCall EXCEPT !.fn = "moveMouseAlongPath", !.page = p,
                                    !.origin = [page |-> p, config |-> config, wrapped |-> FALSE],
                                    !.config = config, !.path = path,
                                    !.start = lastMousePosition]
       IN  calls' = [calls EXCEPT ![c] =
             IF Len(path) = 0 THEN Return(call)
             ELSE Issue([call EXCEPT !.pc = "aMove"], MovePrim(call, path[1]))]
    /\ UNCHANGED lastMousePosition
    /\ UNCHANGED node

\* moveMouseAlongPath resumes from page.mouse.move (lines 129-147): the next
\* point waits for its delay; after the last point lastMousePosition is
\* written and the function returns, to humanClick, which starts its
\* hesitation pause (line 174), or to the caller that called it on its own.
MoveSettled(c, r, d) ==
    /\ calls[c].pc = "aMove"
    /\ LET call == Answer(calls[c], r)
           i == call.i + 1
       IN  IF r.kind = "reject"
           THEN /\ calls' = [calls EXCEPT ![c] = Throw(call, r.error)]
                /\ UNCHANGED lastMousePosition
                /\ UNCHANGED node
           ELSE /\ calls' = [calls EXCEPT ![c] =
                     IF i < Len(call.path)
                     THEN Sleep([call EXCEPT !.i = i], "tMove",
                                MoveDelay(call.path[i], call.path[i + 1], SpeedOf(call.config), d))
                     ELSE IF call.fn = "moveMouseAlongPath"
                     THEN Return([call EXCEPT !.i = i, !.moved = call.path[Len(call.path)]])
                     ELSE Sleep([call EXCEPT !.i = i, !.moved = call.path[Len(call.path)]],
                                "tHesitate", randomSleep(50, 150, d))]
                /\ lastMousePosition' = UpdatedPosition(call.path, i, lastMousePosition)
                /\ UNCHANGED node

\* The delay before point i has elapsed (line 137): the move is issued (line 140).
MoveTimer(c) ==
    /\ calls[c].pc = "tMove"
    /\ LET call == calls[c]
       IN  calls' = [calls EXCEPT ![c] =
                       Issue([call EXCEPT !.pc = "aMove"], MovePrim(call, call.path[call.i + 1]))]
    /\ UNCHANGED lastMousePosition
    /\ UNCHANGED node

\* The hesitation pause has elapsed (line 174): the click is issued (177-180).
HesitateTimer(c) ==
    /\ calls[c].pc = "tHesitate"
    /\ LET call == calls[c]
       IN  calls' = [calls EXCEPT ![c] = Issue([call EXCEPT !.pc = "aClick"], ClickPrim(call))]
    /\ UNCHANGED lastMousePosition
    /\ UNCHANGED node

\* humanClick resumes from page.mouse.click and pauses (line 183).
ClickSettled(c, r, d) ==
    /\ calls[c].pc = "aClick"
    /\ LET call == Answer(calls[c], r)
       IN  calls' = [calls EXCEPT ![c] =
             IF r.kind = "reject" THEN Throw(call, r.error)
             ELSE Sleep(call, "tPostClick", randomSleep(50, 100, d))]
    /\ UNCHANGED lastMousePosition
    /\ UNCHANGED node

\* The pause after the click has elapsed: humanClick returns to its caller,
\* the closure (done), humanType (pause, line 203) or humanFill (line 233).
PostClickTimer(c, d) ==
    /\ calls[c].pc = "tPostClick"
    /\ LET call == calls[c]
       IN  calls' = [calls EXCEPT ![c] =
             IF call.fn = "humanClick" THEN Return(call)
             ELSE IF call.fn = "humanType"
             THEN Sleep(call, "tPreType", randomSleep(100, 200, d))
             ELSE Issue([call EXCEPT !.pc = "aSelectAll"],
                        Prim("press", call.page, 0, 0, "Control+a", NoOptions))]
    /\ UNCHANGED lastMousePosition
    /\ UNCHANGED node

\* Fault injection for C11: a keystroke that ignores the character.
TypePrimBlank(call, char) == Prim("type", call.page, 0, 0, "", NoOptions)

\* page.keyboard.type(char) (lines 207, 241).
TypePrim(call, char) == Prim("type", call.page, 0, 0, char, NoOptions)

\* humanType: the pause before typing has elapsed (line 203); the loop of
\* lines 206-217 issues the first character, or ends at once for an empty text.
TypeStart(c) ==
    /\ calls[c].pc = "tPreType"
    /\ LET call == calls[c]
           text == call.text
       IN  calls' = [calls EXCEPT ![c] =
             IF Len(text) = 0 THEN Return(call)
             ELSE Issue([call EXCEPT !.pc = "aTypeChar", !.k = 1], TypePrim(call, text[1]))]
    /\ UNCHANGED lastMousePosition
    /\ UNCHANGED node

\* humanType resumes from page.keyboard.type (line 207) and waits (line 216).
TypeCharSettled(c, r, d) ==
    /\ calls[c].pc = "aTypeChar"
    /\ LET call == Answer(calls[c], r)
       IN  calls' = [calls EXCEPT ![c] =
             IF r.kind = "reject" THEN Throw(call, r.error)
             ELSE Sleep(call, "tTypeChar",
                        CharDelay(call.text[call.k], TypingDelayOf(call.config), d))]
    /\ UNCHANGED lastMousePosition
    /\ UNCHANGED node

\* The delay after a character has elapsed: the next character, or the end.
TypeCharTimer(c) ==
    /\ calls[c].pc = "tTypeChar"
    /\ LET call == calls[c]
           text == call.text
       IN  calls' = [calls EXCEPT ![c] =
             IF call.k >= Len(text) THEN Return(call)
             ELSE Issue([call EXCEPT !.pc = "aTypeChar", !.k = call.k + 1],
                        TypePrim(call, text[call.k + 1]))]
    /\ UNCHANGED lastMousePosition
    /\ UNCHANGED node

\* humanFill resumes from press('Control+a') and pauses (lines 233-234).
SelectAllSettled(c, r, d) ==
    /\ calls[c].pc = "aSelectAll"
    /\ LET call == Answer(calls[c], r)
       IN  calls' = [calls EXCEPT ![c] =
             IF r.kind = "reject" THEN Throw(call, r.error)
             ELSE Sleep(call, "tSelectAll", randomSleep(50, 100, d))]
    /\ UNCHANGED lastMousePosition
    /\ UNCHANGED node

\* Fault injection for C12: a fill that selects again instead of deleting.
SelectAllTimerAgain(c) ==
    /\ calls[c].pc = "tSelectAll"
    /\ calls' = [calls EXCEPT ![c] =
                   Issue([calls[c] EXCEPT !.pc = "aDelete"],
                         Prim("press", calls[c].page, 0, 0, "Control+a", NoOptions))]
    /\ UNCHANGED lastMousePosition
    /\ UNCHANGED node

\* The pause has elapsed: press('Backspace') is issued (line 235).
SelectAllTimer(c) ==
    /\ calls[c].pc = "tSelectAll"
    /\ calls' = [calls EXCEPT ![c] =
                   Issue([calls[c] EXCEPT !.pc = "aDelete"],
                         Prim("press", calls[c].page, 0, 0, "Backspace", NoOptions))]
    /\ UNCHANGED lastMousePosition
    /\ UNCHANGED node

\* humanFill resumes from press('Backspace') and pauses (lines 235-236).
DeleteSettled(c, r, d) ==
    /\ calls[c].pc = "aDelete"
    /\ LET call == Answer(calls[c], r)
       IN  calls' = [calls EXCEPT ![c] =
             IF r.kind = "reject" THEN Throw(call, r.error)
             ELSE Sleep(call, "tDelete", randomSleep(100, 200, d))]
    /\ UNCHANGED lastMousePosition
    /\ UNCHANGED node

\* humanFill: the pause after the delete has elapsed (line 236); the loop of
\* lines 240-247 issues the first character, or ends for an empty text.
FillStart(c) ==
    /\ calls[c].pc = "tDelete"
    /\ LET call == calls[c]
           text == call.text
       IN  calls' = [calls EXCEPT ![c] =
             IF Len(text) = 0 THEN Return(call)
             ELSE Issue([call EXCEPT !.pc = "aFillChar", !.k = 1], TypePrim(call, text[1]))]
    /\ UNCHANGED lastMousePosition
    /\ UNCHANGED node

\* Fault injection for C26: a fill whose loop takes the default range.
FillCharSettledDefaults(c, r, d) ==
    /\ calls[c].pc = "aFillChar"
    /\ LET call == Answer(calls[c], r)
       IN  calls' = [calls EXCEPT ![c] =
             IF r.kind = "reject" THEN Throw(call, r.error)
             ELSE Sleep(call, "tFillChar",
                        CharDelay(call.text[call.k], DEFAULTS.typingDelay, d))]
    /\ UNCHANGED lastMousePosition
    /\ UNCHANGED node

\* humanFill resumes from page.keyboard.type (line 241) and waits (line 246).
FillCharSettled(c, r, d) ==
    /\ calls[c].pc = "aFillChar"
    /\ LET call == Answer(calls[c], r)
       IN  calls' = [calls EXCEPT ![c] =
             IF r.kind = "reject" THEN Throw(call, r.error)
             ELSE Sleep(call, "tFillChar",
                        CharDelay(call.text[call.k], TypingDelayOf(call.config), d))]
    /\ UNCHANGED lastMousePosition
    /\ UNCHANGED node

\* The delay after a character has elapsed: the next character, or the end.
FillCharTimer(c) ==
    /\ calls[c].pc = "tFillChar"
    /\ LET call == calls[c]
           text == call.text
       IN  calls' = [calls EXCEPT ![c] =
             IF call.k >= Len(text) THEN Return(call)
             ELSE Issue([call EXCEPT !.pc = "aFillChar", !.k = call.k + 1],
                        TypePrim(call, text[call.k + 1]))]
    /\ UNCHANGED lastMousePosition
    /\ UNCHANGED node

\* Fault injection for C13: chunks that are all of the full size.
WheelPrimFull(call, i) ==
    Prim("wheel", call.page, 0,
         call.chunkSize * (IF call.direction = "down" THEN 1 ELSE -1), "", NoOptions)

\* Fault injection for C15: a scroll that drags the pointer.
WheelPrimAsMove(call, i) ==
    Prim("move", call.page, 0,
         Min(call.chunkSize, FRound(call.amount - FRound(i * call.chunkSize))), "", NoOptions)

\* Fault injection for C14: a wheel primitive that ignores the direction.
WheelPrimDown(call, i) ==
    Prim("wheel", call.page, 0,
         Min(call.chunkSize, FRound(call.amount - FRound(i * call.chunkSize))), "", NoOptions)

\* The wheel primitive of chunk i (0-based) of humanScroll (lines 260, 267-268).
WheelPrim(call, i) ==
    LET scrollDirection == IF call.direction = "down" THEN 1 ELSE -1
        scrollAmount == Min(call.chunkSize, FRound(call.amount - FRound(i * call.chunkSize)))
    IN  Prim("wheel", call.page, 0, FRound(scrollAmount * scrollDirection), "", NoOptions)
\* chunks = Math.ceil(amount / chunkSize) (line 264).
Chunks(amount, chunkSize) == CeilOfQuotient(amount, chunkSize)

\* humanScroll(page, direction, amount, config) is called (lines 259-268): the
\* chunk size is drawn once and the first wheel primitive is issued, if any.
Scroll(c, p, config, direction, amount, r) ==
    /\ NextCall(c)
    /\ LET chunkSize == FRound(randomBetween(50 * Unit, 150 * Unit, r))
           call == [IdleCall EXCEPT !.fn = "humanScroll", !.page = p,
                                    !.origin = [page |-> p, config |-> config, wrapped |-> FALSE],
                                    !.config = config, !.direction = direction,
                                    !.amount = amount, !.chunkSize = chunkSize]
       IN  calls' = [calls EXCEPT ![c] =
             IF 0 < Chunks(amount, chunkSize)
             THEN Issue([call EXCEPT !.pc = "aWheel"], WheelPrim(call, 0))
             ELSE Return(call)]
    /\ UNCHANGED lastMousePosition
    /\ UNCHANGED node

\* humanScroll resumes from page.mouse.wheel and pauses (lines 268-269).
WheelSettled(c, r, d) ==
    /\ calls[c].pc = "aWheel"
    /\ LET call == Answer(calls[c], r)
           scrollDelay == ScrollDelayOf(call.config)
       IN  calls' = [calls EXCEPT ![c] =
             IF r.kind = "reject" THEN Throw(call, r.error)
             ELSE Sleep([call EXCEPT !.i = call.i + 1], "tWheel",
                        randomSleep(scrollDelay.min, scrollDelay.max, d))]
    /\ UNCHANGED lastMousePosition
    /\ UNCHANGED node

\* The pause between chunks has elapsed: the next chunk, or the end.
WheelTimer(c) ==
    /\ calls[c].pc = "tWheel"
    /\ LET call == calls[c]
       IN  calls' = [calls EXCEPT ![c] =
             IF call.i < Chunks(call.amount, call.chunkSize)
             THEN Issue([call EXCEPT !.pc = "aWheel"], WheelPrim(call, call.i))
             ELSE Return(call)]
    /\ UNCHANGED lastMousePosition
    /\ UNCHANGED node

\* The caller's await of the call resumes (for click, type and fill: the
\* closure of lines 288-304, which awaits the primitive and has no result of
\* its own).  The frame is gone; what is kept of it is the capability that
\* was called, its outcome and the end of the path it completed, if it did.
Settled(c) ==
    /\ calls[c].pc \in {"done", "failed"}
    /\ calls' = [calls EXCEPT ![c] =
                   [IdleCall EXCEPT !.pc = IF calls[c].pc = "done" THEN "fulfilled" ELSE "rejected",
                                    !.prop = IF calls[c].pc = "done" /\ calls[c].moved # NoPoint
                                             THEN calls[c].prop ELSE "",
                                    !.error = calls[c].error,
                                    !.result = calls[c].result,
                                    !.moved = calls[c].moved]]
    /\ UNCHANGED lastMousePosition
    /\ UNCHANGED node

\* ------------------------------------------------------------ node actions
RECURSIVE Loop(_, _)
\* execute after the finally block of an item (lines 236-251): the error of
\* the catch block is thrown, or the loop goes on with the next item.
AfterFinally(n, ps) ==
    IF n.error # NoNodeError THEN [n EXCEPT !.pc = "thrown"]
    ELSE Loop([n EXCEPT !.itemIndex = @ + 1], ps)

\* Fault injection for C28: a finally block that closes nothing.
FinallyLeavesOpen(n, ps) == AfterFinally(n, ps)

\* The finally block (lines 243-250): an open browser is closed.  The run of
\* the item records the connection and the calls of close made on it.
Finally(n, ps) ==
    IF n.browser = "open"
    THEN [n EXCEPT !.pc = "closing", !.runs[n.itemIndex].connection = "closing",
                   !.runs[n.itemIndex].closes = @ + 1]
    ELSE AfterFinally(n, ps)

\* Fault injection for C30: a catch block that never rethrows.
CatchAndGoOn(n, e, ps) ==
    Finally([n EXCEPT !.returnData = Append(@, ErrorItem(e, n.itemIndex))], ps)

\* The catch block (lines 227-242) for the thrown value e.
Catch(n, e, ps) ==
    Finally(IF n.continueOnFail
            THEN [n EXCEPT !.returnData = Append(@, ErrorItem(e, n.itemIndex))]
            ELSE [n EXCEPT !.error = NodeOperationError(e, n.itemIndex)], ps)

\* The for loop from the top of iteration n.itemIndex to its first await or
\* to its end (lines 124-150, 253); ps are the parameters of the items.
Loop(n, ps) ==
    IF n.itemIndex >= n.items THEN [n EXCEPT !.pc = "returned"]
    ELSE LET m == [n EXCEPT !.browser = "null", !.runs[n.itemIndex].params = ps[n.itemIndex]]
         IN  IF ps[n.itemIndex].cdpEndpoint = ""
             THEN Catch(m, JsError("", "CDP Endpoint URL is required", 0, 0), ps)
             ELSE [m EXCEPT !.pc = "connecting"]

\* execute() is called with `items` input items (lines 120-148).
Execute(items, continueOnFail, ps) ==
    /\ node.pc = "idle"
    /\ node' = Loop([node EXCEPT !.items = items, !.continueOnFail = continueOnFail], ps)
    /\ UNCHANGED <<lastMousePosition, calls>>

\* execute from the context to the await of executeUserCode (lines 170-216),
\* with executeUserCode up to its own await (lines 318-357): newPage is
\* patched, the code is compiled, the user code is started and the timer set.
StartUserCode(n) ==
    LET i == n.itemIndex
        params == n.runs[i].params
        context == PatchNewPage([layers |-> 0], params.emulateHuman)
        run == [n.runs[i] EXCEPT !.context = context]
    IN  [n EXCEPT !.pc = "running",
                  !.runs[i] =
                     IF params.code = "syntax error"
                     THEN [run EXCEPT !.outcome =
                              Rejected(JsError("Syntax error in code: ", "Unexpected token", 0, 0))]
                     ELSE [run EXCEPT !.user = "running",
                                      !.timer = IF params.executionTimeout <= 0
                                                THEN "none" ELSE "armed"]]

\* execute resumes from connectOverCDP (lines 147-168).
ConnectSettled(r, hasContext, ps) ==
    /\ node.pc = "connecting"
    /\ node' = IF r.kind = "reject"
               THEN Catch(node, JsError("Failed to connect to CDP endpoint: ",
                                        r.error.message, 0, 0), ps)
               ELSE IF hasContext
               THEN StartUserCode([node EXCEPT !.browser = "open",
                                               !.runs[node.itemIndex].connection = "open"])
               ELSE [node EXCEPT !.browser = "open", !.pc = "newContext",
                                 !.runs[node.itemIndex].connection = "open"]
    /\ UNCHANGED <<lastMousePosition, calls>>

\* execute resumes from browser.newContext() (line 168).
NewContextSettled(r, ps) ==
    /\ node.pc = "newContext"
    /\ node' = IF r.kind = "reject"
               THEN Catch(node, JsError("", r.error.message, 0, 0), ps)
               ELSE StartUserCode(node)
    /\ UNCHANGED <<lastMousePosition, calls>>

\* execute resumes from executeUserCode (lines 216-242).
ExecuteUserCodeSettled(ps) ==
    /\ node.pc = "running"
    /\ LET outcome == node.runs[node.itemIndex].outcome
           results == normalizeResult(outcome.value)
           pushed == [k \in 1..Len(results) |-> OutputItem(results[k], node.itemIndex)]
       IN  /\ outcome.state # "pending"
           /\ node' = IF outcome.state = "rejected" THEN Catch(node, outcome.reason, ps)
                      ELSE Finally([node EXCEPT !.returnData = @ \o pushed], ps)
    /\ UNCHANGED <<lastMousePosition, calls>>

\* execute resumes from browser.close().catch(...) (lines 245-253).
CloseSettled(r, ps) ==
    /\ node.pc = "closing"
    /\ node' = AfterFinally([node EXCEPT !.browser = "closed",
                                         !.runs[node.itemIndex].connection = "closed"], ps)
    /\ UNCHANGED <<lastMousePosition, calls>>

\* executePromise settles as s (lines 342-357): the user code is over, and
\* executeUserCode settles with it unless the timer has settled it before.
UserSettle(run, s) ==
    [run EXCEPT !.user = "settled", !.executePromise = s, !.refs = << >>,
                !.outcome = IF @.state = "pending"
                            THEN UserSettledOutcome(run.params.executionTimeout, s)
                            ELSE @]

\* The user code of item i calls $context.newPage() (lines 176-177, 190).
UserNewPage(i) ==
    /\ node.runs[i].user = "running"
    /\ Len(node.runs[i].refs) < MaxPages
    /\ node' = [node EXCEPT !.runs[i].user = "aNewPage"]
    /\ UNCHANGED <<lastMousePosition, calls>>

\* The newPage of the context resolves (lines 177-178) or rejects; user code
\* that does not catch the rejection fails with it.
NewPageSettled(i, r) ==
    /\ node.runs[i].user = "aNewPage"
    /\ LET run == node.runs[i]
           page == Page(run.created + 1)
           held == NewPageResult(page, run.context.layers, HumanConfig(run.params.emulateHuman))
       IN  node' = [node EXCEPT !.runs[i] =
                      IF r.kind = "reject"
                      THEN UserSettle(run, Rejected(JsError("", r.error.message, 0, 0)))
                      ELSE [run EXCEPT !.user = "running", !.created = @ + 1,
                                       !.refs = Append(@, held)]]
    /\ UNCHANGED <<lastMousePosition, calls>>

\* The user code of item i obtains a page in another way (lines 188-190):
\* one of $context.pages(), or a new one of $browser.newPage().
UserOtherPage(i, id) ==
    /\ node.runs[i].user = "running"
    /\ Len(node.runs[i].refs) < MaxPages
    /\ LET run == node.runs[i]
           fresh == id = run.created + 1
           held == Held(Page(id), id, 0, IF fresh THEN "browser" ELSE "pages")
       IN  /\ id \in 0..(run.created + 1)
           /\ node' = [node EXCEPT !.runs[i] =
                         [run EXCEPT !.created = IF fresh THEN id ELSE @,
                                     !.refs = Append(@, held)]]
    /\ UNCHANGED <<lastMousePosition, calls>>

\* The user code of item i returns.
UserReturns(i, value) ==
    /\ node.runs[i].user = "running"
    /\ node' = [node EXCEPT !.runs[i] = UserSettle(@, Fulfilled(value))]
    /\ UNCHANGED <<lastMousePosition, calls>>

\* The user code of item i throws.
UserThrows(i, error) ==
    /\ node.runs[i].user = "running"
    /\ node' = [node EXCEPT !.runs[i] = UserSettle(@, Rejected(error))]
    /\ UNCHANGED <<lastMousePosition, calls>>

\* The user code of item i calls click(selector) on the k-th page it holds
\* (lines 188-190, 343); the call runs in the module of part_000 whatever
\* becomes of the item.  The page is named by its item and its number.
UserClick(i, k, c, selector) ==
    /\ node.runs[i].user = "running"
    /\ k \in 1..Len(node.runs[i].refs)
    /\ LET held == node.runs[i].refs[k]
       IN  Invoke(c, <<i, held.id>>, held.ref.config, held.ref.proxy, "click",
                  [selector |-> selector, text |-> << >>, options |-> NoOptions])

\* Fault injection for C27: an execution that starts with a fresh position.
ExecuteAgainResets(items, continueOnFail, ps) ==
    /\ node.pc \in {"returned", "thrown"}
    /\ node' = Loop([IdleNode EXCEPT !.items = items, !.continueOnFail = continueOnFail], ps)
    /\ lastMousePosition' = Point(100 * Unit, 100 * Unit)
    /\ UNCHANGED calls

\* execute() is called again in the same process (lines 120-148): the node
\* starts afresh, the module of part_000 and its calls in flight stay.
ExecuteAgain(items, continueOnFail, ps) ==
    /\ node.pc \in {"returned", "thrown"}
    /\ node' = Loop([IdleNode EXCEPT !.items = items, !.continueOnFail = continueOnFail], ps)
    /\ UNCHANGED <<lastMousePosition, calls>>

\* Fault injection for C29: a timer that also ends the calls of its item.
TimerFiresAndStops(i) ==
    /\ node.runs[i].timer = "armed"
    /\ node' = [node EXCEPT !.runs[i] =
                  [@ EXCEPT !.timer = "fired",
                            !.outcome = TimerFiredOutcome(node.runs[i].params.executionTimeout, @)]]
    /\ calls' = [c \in CallIds |->
                   IF calls[c].pc \in {"idle", "fulfilled", "rejected", "done", "failed"}
                   THEN calls[c]
                   ELSE Throw(calls[c], Error("Execution timeout exceeded", ""))]
    /\ UNCHANGED lastMousePosition

\* The timer of item i fires (lines 350-354).
TimerFires(i) ==
    /\ node.runs[i].timer = "armed"
    /\ node' = [node EXCEPT !.runs[i] =
                  [@ EXCEPT !.timer = "fired",
                            !.outcome = TimerFiredOutcome(node.runs[i].params.executionTimeout, @)]]
    /\ UNCHANGED <<lastMousePosition, calls>>

\* ------------------------------------------------------------ specification
\* The arguments the user code passes for a capability.
ArgsOf(prop) ==
    IF prop = "click"
    THEN {[selector |-> "#a", text |-> << >>, options |-> NoOptions],
          [selector |-> "#b", text |-> << >>, options |-> [button |-> "right", clickCount |-> 2]]}
    ELSE IF prop \in {"type", "fill"}
    THEN {[selector |-> "#a", text |-> <<"h", ".">>, options |-> NoOptions],
          [selector |-> "#b", text |-> << >>, options |-> NoOptions]}
    ELSE {NoArgs}

ElementAnswers == {Ok, Null} \cup {Reject(e) : e \in ActorErrors}

\* The user code starts a call.
Start(c) ==
    \/ \E p \in Pages, prop \in Props : \E args \in ArgsOf(prop) :
          \/ Invoke(c, p, NoConfig, FALSE, prop, args)
          \/ \E cfg \in Configs : Invoke(c, p, cfg, TRUE, prop, args)
    \/ \E p \in Pages, d \in Directions, a \in ScrollAmounts, r \in ChunkDraws :
          Scroll(c, p, NoConfig, d, a, r)

\* Sequential usage (spec.md, section 5): the user code awaits each call
\* before it makes the next.
Sequential(c) == \A d \in CallIds : d < c => calls[d].pc \in {"fulfilled", "rejected"}

\* A call in flight resumes from an await.
Continue ==
    \/ \E c \in CallIds, r \in ElementAnswers : ElementSettled(c, r)
    \/ \E c \in CallIds, r \in ElementAnswers, draw \in ClickDraws : BoxSettled(c, r, draw)
    \/ \E c \in CallIds, r \in Settlements, d \in DelayDraws : MoveSettled(c, r, d)
    \/ \E c \in CallIds : MoveTimer(c)
    \/ \E c \in CallIds : HesitateTimer(c)
    \/ \E c \in CallIds, r \in Settlements, d \in DelayDraws : ClickSettled(c, r, d)
    \/ \E c \in CallIds, d \in DelayDraws : PostClickTimer(c, d)
    \/ \E c \in CallIds : TypeStart(c)
    \/ \E c \in CallIds, r \in Settlements, d \in DelayDraws : TypeCharSettled(c, r, d)
    \/ \E c \in CallIds : TypeCharTimer(c)
    \/ \E c \in CallIds, r \in Settlements, d \in DelayDraws : SelectAllSettled(c, r, d)
    \/ \E c \in CallIds : SelectAllTimer(c)
    \/ \E c \in CallIds, r \in Settlements, d \in DelayDraws : DeleteSettled(c, r, d)
    \/ \E c \in CallIds : FillStart(c)
    \/ \E c \in CallIds, r \in Settlements, d \in DelayDraws : FillCharSettled(c, r, d)
    \/ \E c \in CallIds : FillCharTimer(c)
    \/ \E c \in CallIds, r \in Settlements, d \in DelayDraws : WheelSettled(c, r, d)
    \/ \E c \in CallIds : WheelTimer(c)
    \/ \E c \in CallIds : Settled(c)

Next ==
    \/ \E c \in CallIds : Sequential(c) /\ Start(c)
    \/ Continue

Spec == Init /\ [][Next]_vars

\* Any interleaving of the calls' continuations: nothing in the module orders
\* two calls that the user code starts without awaiting the first.
NextConcurrent ==
    \/ \E c \in CallIds : Start(c)
    \/ Continue

SpecConcurrent == Init /\ [][NextConcurrent]_vars

\* humanScroll alone, called one call after the other with any direction,
\* amount and chunk-size draw.
NextScroll ==
    \/ \E c \in CallIds, p \in Pages, d \in Directions, a \in AnyAmounts, r \in AnyChunkDraws :
          Sequential(c) /\ Scroll(c, p, NoConfig, d, a, r)
    \/ \E c \in CallIds, r \in Settlements, d \in DelayDraws : WheelSettled(c, r, d)
    \/ \E c \in CallIds : WheelTimer(c)
    \/ \E c \in CallIds : Settled(c)

SpecScroll == Init /\ [][NextScroll]_vars

\* Sequential calls of generateMousePath on its own: starts and ends with
\* whole and fractional coordinates, in every direction of travel and at
\* distance 0, every step count from 1, and draws at the ends and in the
\* middle of their ranges (angles -45, 0, 22.5 and 45 degrees).
NextPlanner ==
    \/ \E c \in CallIds, steps \in 1..MoveSteps, k \in 0..2, o \in {0, 500, 999} :
          \E start \in {Point(100 * Unit, 100 * Unit), Point(2154, -37)},
             end \in {Point(200 * Unit, 100 * Unit), Point(100 * Unit, 300 * Unit),
                      Point(20 * Unit, 10 * Unit), Point(424, 626),
                      Point(100 * Unit, 100 * Unit)},
             a1 \in {[cos |-> 707, sin |-> -707], [cos |-> 1000, sin |-> 0],
                     [cos |-> 924, sin |-> 383], [cos |-> 707, sin |-> 707]} :
              /\ Sequential(c)
              /\ Plan(c, start, end, steps, PathDraw(o, 999 - o, a1, [cos |-> 1000, sin |-> 0], k))
    \/ \E c \in CallIds : Settled(c)

SpecPlanner == Init /\ [][NextPlanner]_vars

\* Sequential calls of moveMouseAlongPath on its own, with paths of no, one
\* and several points, whole and fractional.
NextDriver ==
    \/ \E c \in CallIds, p \in Pages, cfg \in AnyConfigs :
          \E path \in {<< >>, <<Point(30 * Unit, 40 * Unit)>>,
                        <<Point(100 * Unit, 100 * Unit), Point(1205, -7), Point(1205, -7)>>,
                        <<Point(0, 0), Point(55, 55), Point(20 * Unit, 90 * Unit),
                          Point(3 * Unit, 4 * Unit)>>} :
              Sequential(c) /\ MoveMouseAlongPath(c, p, path, cfg)
    \/ \E c \in CallIds, r \in Settlements, d \in AnyDelayDraws : MoveSettled(c, r, d)
    \/ \E c \in CallIds : MoveTimer(c)
    \/ \E c \in CallIds : Settled(c)

SpecDriver == Init /\ [][NextDriver]_vars

\* Sequential calls of click, type, fill and humanScroll, each with any of
\* the configurations and any of the draws for its delays.
NextConfig ==
    \/ \E c \in CallIds, p \in Pages, cfg \in AnyConfigs, prop \in FunctionProps :
          \E text \in {<<"h", ".">>, <<",", "!", "x", "?", " ", "\n">>} :
              /\ Sequential(c)
              /\ Invoke(c, p, cfg, TRUE, prop,
                        [selector |-> "#a", text |-> text, options |-> NoOptions])
    \/ \E c \in CallIds, p \in Pages, cfg \in AnyConfigs, dir \in Directions, r \in ChunkDraws :
          Sequential(c) /\ Scroll(c, p, cfg, dir, 300 * Unit, r)
    \/ \E c \in CallIds : ElementSettled(c, Ok)
    \/ \E c \in CallIds, draw \in ClickDraws : BoxSettled(c, Ok, draw)
    \/ \E c \in CallIds, d \in AnyDelayDraws : MoveSettled(c, Ok, d)
    \/ \E c \in CallIds : MoveTimer(c)
    \/ \E c \in CallIds : HesitateTimer(c)
    \/ \E c \in CallIds, d \in AnyDelayDraws : ClickSettled(c, Ok, d)
    \/ \E c \in CallIds, d \in AnyDelayDraws : PostClickTimer(c, d)
    \/ \E c \in CallIds : TypeStart(c)
    \/ \E c \in CallIds, d \in AnyDelayDraws : TypeCharSettled(c, Ok, d)
    \/ \E c \in CallIds : TypeCharTimer(c)
    \/ \E c \in CallIds, d \in AnyDelayDraws : SelectAllSettled(c, Ok, d)
    \/ \E c \in CallIds : SelectAllTimer(c)
    \/ \E c \in CallIds, d \in AnyDelayDraws : DeleteSettled(c, Ok, d)
    \/ \E c \in CallIds : FillStart(c)
    \/ \E c \in CallIds, d \in AnyDelayDraws : FillCharSettled(c, Ok, d)
    \/ \E c \in CallIds : FillCharTimer(c)
    \/ \E c \in CallIds, d \in AnyDelayDraws : WheelSettled(c, Ok, d)
    \/ \E c \in CallIds : WheelTimer(c)
    \/ \E c \in CallIds : Settled(c)

SpecConfig == Init /\ [][NextConfig]_vars

\* One execution of the node, with user code that obtains pages, returns or
\* throws, and the timers of its items.
NextNode ==
    \/ \E n \in 0..MaxItems, cof \in BOOLEAN, ps \in [Items -> Parameters] : Execute(n, cof, ps)
    \/ \E r \in Settlements, hasContext \in BOOLEAN, ps \in [Items -> Parameters] :
          ConnectSettled(r, hasContext, ps)
    \/ \E r \in Settlements, ps \in [Items -> Parameters] : NewContextSettled(r, ps)
    \/ \E ps \in [Items -> Parameters] : ExecuteUserCodeSettled(ps)
    \/ \E r \in Settlements, ps \in [Items -> Parameters] : CloseSettled(r, ps)
    \/ \E i \in Items : UserNewPage(i)
    \/ \E i \in Items, r \in Settlements : NewPageSettled(i, r)
    \/ \E i \in Items, id \in 0..MaxPages : UserOtherPage(i, id)
    \/ \E i \in Items, value \in UserResults : UserReturns(i, value)
    \/ \E i \in Items, error \in UserErrors : UserThrows(i, error)
    \/ \E i \in Items : TimerFires(i)

SpecNode == Init /\ [][NextNode]_vars

\* No call made from a page of item i is in flight: user code that awaits
\* its clicks goes on only then.
Awaited(i) ==
    \A c \in CallIds :
        IF calls[c].pc \in {"idle", "fulfilled", "rejected"} THEN TRUE
        ELSE calls[c].origin.page[1] # i

\* The node and the module of part_000 in one process: executions of the
\* node one after another, each over items that connect and run with Emulate
\* Human Behavior and without a timeout; user code that creates pages,
\* clicks on them, awaits each click and returns; and the calls of click,
\* which go on from await to await.
NextSession ==
    \/ \E n \in 1..MaxItems, ps \in [Items -> {p \in Parameters : p.emulateHuman /\ p.executionTimeout = 0}] :
          \/ Execute(n, TRUE, ps)
          \/ ExecuteAgain(n, TRUE, ps)
          \/ ConnectSettled(Ok, TRUE, ps)
          \/ ExecuteUserCodeSettled(ps)
          \/ CloseSettled(Ok, ps)
    \/ \E i \in Items : Awaited(i) /\ UserNewPage(i)
    \/ \E i \in Items : NewPageSettled(i, Ok)
    \/ \E i \in Items, k \in 1..MaxPages, c \in CallIds :
          Sequential(c) /\ UserClick(i, k, c, IF i = 0 THEN "#a" ELSE "#b")
    \/ \E i \in Items : Awaited(i) /\ UserReturns(i, NoResult)
    \/ \E c \in CallIds : ElementSettled(c, Ok)
    \/ \E c \in CallIds, draw \in ClickDraws : BoxSettled(c, Ok, draw)
    \/ \E c \in CallIds, d \in DelayDraws : MoveSettled(c, Ok, d)
    \/ \E c \in CallIds : MoveTimer(c)
    \/ \E c \in CallIds : HesitateTimer(c)
    \/ \E c \in CallIds, d \in DelayDraws : ClickSettled(c, Ok, d)
    \/ \E c \in CallIds, d \in DelayDraws : PostClickTimer(c, d)
    \/ \E c \in CallIds : Settled(c)

SpecSession == Init /\ [][NextSession]_vars

\* One execution of the node over items that run under a timeout and
\* continue on fail: user code that creates one page, clicks on it, awaits
\* the click and returns; timers that fire while a click is in flight; and
\* the calls of click of all items, which go on from await to await with
\* actors that fulfil or reject; a close that fails is swallowed.
NextTimeout ==
    \/ \E ps \in [Items -> {p \in Parameters : p.emulateHuman /\ p.executionTimeout > 0}] :
          \/ Execute(MaxItems, TRUE, ps)
          \/ ConnectSettled(Ok, TRUE, ps)
          \/ ExecuteUserCodeSettled(ps)
          \/ \E r \in Settlements : CloseSettled(r, ps)
    \/ \E i \in Items : node.runs[i].refs = << >> /\ UserNewPage(i)
    \/ \E i \in Items : NewPageSettled(i, Ok)
    \/ \E i \in Items, c \in CallIds : UserClick(i, 1, c, IF i = 0 THEN "#a" ELSE "#b")
    \/ \E i \in Items : Awaited(i) /\ UserReturns(i, NoResult)
    \/ \E i \in Items : TimerFires(i)
    \/ \E c \in CallIds : ElementSettled(c, Ok)
    \/ \E c \in CallIds, draw \in ClickDraws : BoxSettled(c, Ok, draw)
    \/ \E c \in CallIds, r \in Settlements, d \in DelayDraws : MoveSettled(c, r, d)
    \/ \E c \in CallIds : MoveTimer(c)
    \/ \E c \in CallIds : HesitateTimer(c)
    \/ \E c \in CallIds, d \in DelayDraws : ClickSettled(c, Ok, d)
    \/ \E c \in CallIds, d \in DelayDraws : PostClickTimer(c, d)
    \/ \E c \in CallIds : Settled(c)

SpecTimeout == Init /\ [][NextTimeout]_vars

\* One click through an enabled wrapper, on any of the elements and with any
\* of the draws for its target point.
NextTarget ==
    \/ \E p \in Pages, cfg \in Configs, sel \in AnySelectors, o \in ClickOptions :
          /\ cfg.enabled
          /\ Invoke(1, p, cfg, TRUE, "click", [selector |-> sel, text |-> << >>, options |-> o])
    \/ \E r \in ElementAnswers : ElementSettled(1, r)
    \/ \E r \in ElementAnswers, draw \in AnyClickDraws : BoxSettled(1, r, draw)
    \/ \E r \in Settlements, d \in DelayDraws : MoveSettled(1, r, d)
    \/ MoveTimer(1)
    \/ HesitateTimer(1)
    \/ \E r \in Settlements, d \in DelayDraws : ClickSettled(1, r, d)
    \/ \E d \in DelayDraws : PostClickTimer(1, d)
    \/ Settled(1)

SpecTarget == Init /\ [][NextTarget]_vars

\* ------------------------------------------------------------------- claims
Intercepted == {"click", "type", "fill"}
Emulated == {"humanClick", "humanType", "humanFill"}
\* The call of frame `call` was made on what createHumanizedPage returned for
\* a configuration with the given enabled flag.
Wrapped(call, enabled) == call.origin.wrapped /\ call.origin.config.enabled = enabled
\* The original actor of a call.
Actor(call) == Page(call.origin.page)

\* C1: createHumanizedPage with enabled = false returns the page it was given,
\* and click, type and fill on the result are the page's own methods: a call
\* of any method on the result runs that method of the page with the page as
\* its this and the caller's arguments, no emulated function runs, and a
\* member that is not a function is the page's.
C1_DisabledWrapIsIdentity ==
    /\ \A p \in Pages, config \in Configs :
          ~config.enabled => createHumanizedPage(Page(p), config) = Page(p)
    /\ \A c \in CallIds :
          LET call == calls[c]
          IN  Wrapped(call, FALSE) =>
                /\ call.fn \notin Emulated
                /\ call.prop \in FunctionProps =>
                      call.issued = <<Native(call.prop, Actor(call), call.args)>>
                /\ call.prop \notin FunctionProps =>
                      call.issued = << >> /\ call.result = Actor(call)

\* C1 happens: click was called on the result of a disabled wrap.
C1_Witness ==
    \E c \in CallIds :
        /\ Wrapped(calls[c], FALSE)
        /\ calls[c].prop = "click"
        /\ calls[c].pc = "done"
        /\ Len(calls[c].issued) = 1

\* The emulated function the closure of a capability delegates to.
EmulatedFor(prop) ==
    IF prop = "click" THEN "humanClick" ELSE IF prop = "type" THEN "humanType" ELSE "humanFill"

\* C2: with enabled = true, a call of click, type or fill on the wrapper runs
\* humanClick, humanType or humanFill on the original page with the
\* configuration given to createHumanizedPage, the caller's selector, the
\* caller's text (type, fill) and the caller's options (click, type); no
\* method of the page itself is invoked by the call.
C2_WrapperRunsEmulated ==
    \A c \in CallIds :
        LET call == calls[c]
        IN  (Wrapped(call, TRUE) /\ call.prop \in Intercepted) =>
              /\ call.fn = EmulatedFor(call.prop)
              /\ call.page = call.origin.page
              /\ call.config = call.origin.config
              /\ call.selector = call.args.selector
              /\ call.prop \in {"type", "fill"} => call.text = call.args.text
              /\ call.prop \in {"click", "type"} => call.options = call.args.options
              /\ Len(call.issued) >= 1
              /\ \A k \in 1..Len(call.issued) :
                    call.issued[k].op # "native" /\ call.issued[k].page = call.origin.page

\* C2 happens: a fill on an enabled wrapper has typed its text.
C2_Witness ==
    \E c \in CallIds :
        /\ Wrapped(calls[c], TRUE)
        /\ calls[c].prop = "fill"
        /\ calls[c].pc = "done"
        /\ calls[c].args.text # << >>

\* The same capability used directly on the original page.
DirectUse(call) == CallOn(IdleCall, Actor(call), call.prop, call.args)

\* C3: with enabled = true, a capability other than click, type and fill used
\* through the wrapper does to the page, and gives, what it does and gives
\* when used on the page itself: a method runs at once in the page with the
\* page (not the wrapper) as its this, a member that is not a function is
\* handed back as it is; lastMousePosition is not written, and the outcome
\* is the same whatever lastMousePosition holds.
C3_PassThrough ==
    [][\A c \in CallIds :
          LET call == calls'[c]
          IN  (calls[c].pc = "idle" /\ Wrapped(call, TRUE) /\ call.prop \notin Intercepted) =>
                /\ lastMousePosition' = lastMousePosition
                /\ call.pc = "done"
                /\ call.fn \notin Emulated
                /\ call.issued = DirectUse(call).issued
                /\ call.result = DirectUse(call).result
                /\ call.prop \in FunctionProps =>
                      /\ Len(call.issued) = 1
                      /\ call.issued[1].this = Actor(call)
                      /\ call.issued[1].key = call.prop
                /\ call.prop \notin FunctionProps =>
                      call.issued = << >> /\ call.result = Actor(call)]_vars

\* C3 happens: goto was called through an enabled wrapper after an emulated
\* call had moved lastMousePosition away from its initial value.
C3_Witness ==
    \E c \in CallIds :
        /\ Wrapped(calls[c], TRUE)
        /\ calls[c].prop = "goto"
        /\ calls[c].pc = "done"
        /\ lastMousePosition # Point(100 * Unit, 100 * Unit)

\* The position in `issued` of the click primitive of a frame, 0 if none.
ClickAt(call) ==
    IF \E k \in 1..Len(call.issued) : call.issued[k].op = "click"
    THEN CHOOSE k \in 1..Len(call.issued) : call.issued[k].op = "click"
    ELSE 0
\* The click of the frame succeeded: the actor fulfilled its click primitive.
ClickSucceeded(call) ==
    /\ call.fn \in Emulated
    /\ ClickAt(call) > 0
    /\ Len(call.settled) >= ClickAt(call)
    /\ call.settled[ClickAt(call)] = Ok
\* The options the user gave for the click of a frame (none for type, fill).
GivenOptions(call) == IF call.prop = "click" THEN call.args.options ELSE NoOptions

\* The order of the primitives of a frame whose click succeeded.
ClickOrder(call) ==
    LET n == Len(call.path)
    IN  /\ n = DEFAULTS.moveSteps + 1
        /\ ClickAt(call) = n + 3
        /\ call.issued[1] = Prim("$", call.origin.page, 0, 0, call.args.selector, NoOptions)
        /\ call.issued[2].op = "boundingBox" /\ call.issued[2].key = call.args.selector
        /\ call.planAt = 2
        /\ \A i \in 1..n :
              call.issued[2 + i] =
                 Prim("move", call.origin.page, call.path[i].x, call.path[i].y, "", NoOptions)
        /\ call.issued[n + 3] =
              Prim("click", call.origin.page, call.targetPoint.x, call.targetPoint.y, "",
                   [button |-> IF GivenOptions(call).button = ""
                               THEN "left" ELSE GivenOptions(call).button,
                    clickCount |-> IF GivenOptions(call).clickCount = 0
                                   THEN 1 ELSE GivenOptions(call).clickCount])
        /\ \A k \in 1..Len(call.issued) :
              /\ call.issued[k].op = "click" => k = n + 3
              /\ call.issued[k].op = "move" => k < n + 3

\* C4: in every successful click the primitives are, in this order, the
\* element resolution, the bounding-box read, every move of the planned path
\* in path order and exactly one click at the target point (button left,
\* click count 1 when no options are given), with no move after the click;
\* the path is planned after the bounding-box read and before the first move,
\* from the value lastMousePosition holds at that moment.
C4_ClickOrder ==
    [][\A c \in CallIds :
          /\ ClickSucceeded(calls'[c]) => ClickOrder(calls'[c])
          /\ (calls[c].path = << >> /\ calls'[c].path # << >>) =>
                /\ Len(calls[c].issued) = 2
                /\ calls'[c].start = lastMousePosition
                /\ \E draw \in ClickDraws :
                      calls'[c].path =
                         generateMousePath(lastMousePosition, calls'[c].targetPoint,
                                           DEFAULTS.moveSteps, draw.path)]_vars

\* C4 happens: a second call has clicked with no options given, after a
\* first one moved lastMousePosition away from its initial value.
C4_Witness ==
    \E c \in CallIds :
        /\ c > 1
        /\ calls[c].pc = "done"
        /\ calls[c].prop = "click"
        /\ ClickSucceeded(calls[c])
        /\ GivenOptions(calls[c]) = NoOptions
        /\ calls[c].start # Point(100 * Unit, 100 * Unit)

\* The actor answered null to the primitive at position k of the frame.
AnsweredNull(call) == \E k \in 1..Len(call.settled) : call.settled[k] = Null

\* C5: click, type or fill on a selector for which page.$ gives no element,
\* or whose element gives no bounding box, fails with the error "Element not
\* found: <selector>", respectively "Element has no bounding box"; the
\* element was resolved once, nothing but that resolution and the
\* bounding-box read was issued, and no step of the call up to the failure
\* writes lastMousePosition.
C5_ElementNotFound ==
    [][\A c \in CallIds :
          LET call == calls'[c]
          IN  /\ (call.fn \in Emulated /\ AnsweredNull(call)) =>
                    /\ call.pc = "failed"
                    /\ call.planAt = 0
                    /\ call.settled[Len(call.settled)] = Null
                    /\ Len(call.issued) = Len(call.settled)
                    /\ Len(call.issued) \in {1, 2}
                    /\ call.issued[1].op = "$"
                    /\ call.error =
                          IF Len(call.issued) = 1
                          THEN Error("Element not found", call.args.selector)
                          ELSE Error("Element has no bounding box", "")
                    /\ \A k \in 1..Len(call.issued) :
                          /\ call.issued[k].op \in {"$", "boundingBox"}
                          /\ call.issued[k].op = "$" => k = 1
              /\ (call.fn \in Emulated /\ call.planAt = 0 /\ call # calls[c]) =>
                    lastMousePosition' = lastMousePosition]_vars

\* C5 happens: a type on an element without bounding box has failed, after
\* an earlier call moved lastMousePosition.
C5_Witness ==
    \E c \in CallIds :
        /\ calls[c].prop = "type"
        /\ calls[c].pc = "failed"
        /\ calls[c].settled = <<Ok, Null>>
        /\ lastMousePosition # Point(100 * Unit, 100 * Unit)

\* Call c is a click that has planned its path, and the call before it was a
\* click that completed its path and returned.
TwoClicks(c) ==
    /\ c > 1
    /\ calls[c - 1].pc = "fulfilled"
    /\ calls[c - 1].prop = "click"
    /\ calls[c - 1].moved # NoPoint
    /\ calls[c].prop = "click"
    /\ calls[c].path # << >>

\* C6 as stated: of two sequential clicks, the first point of the second
\* path equals the last point of the first path.
C6_SecondPathStartsAtEnd ==
    \A c \in CallIds : TwoClicks(c) => calls[c].path[1] = calls[c - 1].moved

Within(a, b, d) == Abs(a.x - b.x) <= d /\ Abs(a.y - b.y) <= d

\* C6 amended: of two sequential clicks, the second path is planned with the
\* last point of the first path (the value the first click left in
\* lastMousePosition) as its start; its first point is that start displaced
\* by the jitter and rounded, at most one pixel away on each axis.
C6_SecondPathPlannedFromEnd ==
    \A c \in CallIds :
        TwoClicks(c) =>
          /\ calls[c].start = calls[c - 1].moved
          /\ Within(calls[c].path[1], calls[c - 1].moved, Unit)

\* C6 happens: the second of two clicks has a path whose first point is not
\* the last point of the first path.
C6_Witness ==
    \E c \in CallIds : TwoClicks(c) /\ calls[c].path[1] # calls[c - 1].moved

\* The most recent pointer primitive (move or click) of a frame.
LastPointerPrim(call) ==
    LET ks == {k \in 1..Len(call.issued) : call.issued[k].op \in {"move", "click"}}
    IN  call.issued[CHOOSE k \in ks : \A j \in ks : j <= k]

\* C7 as stated: after a completed click, type or fill, lastMousePosition is
\* the position the pointer was last sent to by that call.
C7_SessionStateIsPointerPosition ==
    \A c \in CallIds :
        (calls[c].fn \in Emulated /\ calls[c].pc = "done") =>
           lastMousePosition =
              Point(LastPointerPrim(calls[c]).x, LastPointerPrim(calls[c]).y)

\* The frame is driving the pointer along its path: a move is pending or the
\* delay before the next one is running.
Driving(call) == call.pc \in {"aMove", "tMove"}
\* The point of the most recent move a driving frame issued.
LastMovePoint(call) == call.path[Len(call.issued) - call.planAt]

\* Call b is driving the pointer and has sent it to a point other than the
\* one lastMousePosition holds, call c is about to plan its path, and no
\* other call has been made.
StaleFor(b, c) ==
    /\ b # c
    /\ Driving(calls[b])
    /\ calls[c].pc = "aBox"
    /\ calls[c].fn \in Emulated
    /\ \A d \in CallIds \ {b, c} : calls[d].pc = "idle"
    /\ LastMovePoint(calls[b]) # lastMousePosition

\* C8: of two emulated calls started concurrently on the same page, one can
\* plan its path while the other is in the middle of driving the pointer.
\* Whenever lastMousePosition differs from the point of the most recent move
\* issued to the page and a call awaits its bounding box, that call can
\* resume at once (its continuation is enabled whatever the other call is
\* doing; the condition does not depend on the answer, null is taken here),
\* and when it resumes with a box it plans from lastMousePosition, a value
\* other than the point of that move.
C8_StalePlanning ==
    [][\A b \in CallIds, c \in CallIds :
          StaleFor(b, c) =>
             /\ \A draw \in ClickDraws : ENABLED BoxSettled(c, Null, draw)
             /\ (calls'[c] # calls[c] /\ calls'[c].path # << >>) =>
                   /\ calls'[c].pc = "aMove"
                   /\ calls'[c].start = lastMousePosition
                   /\ calls'[c].start # LastMovePoint(calls[b])
                   /\ \E draw \in ClickDraws :
                         calls'[c].path =
                            generateMousePath(lastMousePosition, calls'[c].targetPoint,
                                              DEFAULTS.moveSteps, draw.path)]_vars

\* C8 happens: one call has had a move fulfilled and another issued while a
\* second call on the same page awaits its bounding box.
C8_Witness ==
    \E b \in CallIds, c \in CallIds :
        /\ StaleFor(b, c)
        /\ calls[b].i >= 1
        /\ calls[b].pc = "aMove"
        /\ calls[b].page = calls[c].page

\* The call of the frame was abandoned in the middle of its path: some but
\* not all moves of the path were fulfilled and the call does not go on,
\* because its delay or its pending move never ends or because the move was
\* rejected (the browser was closed).
AbandonedMidPath(call) ==
    /\ call.path # << >>
    /\ call.i >= 1
    /\ call.i < Len(call.path)
    /\ call.pc \in {"aMove", "tMove", "failed"}
\* The points of its path a frame has not reached: those after the last
\* move that was fulfilled.
NotYetReached(call) == {call.path[j] : j \in (call.i + 1)..Len(call.path)}

ActorPrimitives == {"$", "boundingBox", "move", "click", "press", "type", "wheel"}
\* The actor rejected the primitive at position k of the frame.
RejectedAt(call, k) == k \in 1..Len(call.settled) /\ call.settled[k].kind = "reject"

\* C10: if the actor rejects a primitive of click, type, fill or scroll, the
\* call fails with the error of that rejection, unchanged, the rejected
\* primitive is the last one the call issued, and the failed call does
\* nothing more than hand that error to its caller.
C10_FailurePropagates ==
    [][\A c \in CallIds :
          /\ \A k \in 1..Len(calls'[c].settled) :
                RejectedAt(calls'[c], k) =>
                   /\ calls'[c].issued[k].op \in ActorPrimitives
                   /\ calls'[c].pc = "failed"
                   /\ calls'[c].error = calls'[c].settled[k].error
                   /\ k = Len(calls'[c].issued)
          /\ (calls[c].pc = "failed" /\ calls'[c] # calls[c]) =>
                /\ calls'[c].pc = "rejected"
                /\ calls'[c].error = calls[c].error
                /\ calls'[c].issued = << >>
                /\ lastMousePosition' = lastMousePosition]_vars

\* C10 happens: the Backspace press of a fill was rejected.
C10_Witness ==
    \E c \in CallIds :
        /\ calls[c].fn = "humanFill"
        /\ calls[c].pc = "failed"
        /\ Len(calls[c].settled) >= 1
        /\ RejectedAt(calls[c], Len(calls[c].settled))
        /\ calls[c].issued[Len(calls[c].issued)].key = "Backspace"

\* The keys of the primitives a frame issued after its click, in order.
KeysAfterClick(call) ==
    [k \in 1..(Len(call.issued) - ClickAt(call)) |-> call.issued[ClickAt(call) + k]]
\* The call of the frame returned normally.
Succeeded(call, fn) == call.fn = fn /\ call.pc = "done"

\* C11: a successful type call performs the emulated click on its selector
\* (element resolution, bounding box, the moves of the path, one click)
\* before any keystroke, and after it issues exactly one keyboard.type per
\* character of the text, in text order and with that character; for the
\* empty text nothing follows the click.
C11_TypeOrder ==
    \A c \in CallIds :
        LET call == calls[c]
        IN  Succeeded(call, "humanType") =>
              /\ ClickSucceeded(call)
              /\ ClickOrder(call)
              /\ Len(KeysAfterClick(call)) = Len(call.args.text)
              /\ \A k \in 1..Len(call.args.text) :
                    KeysAfterClick(call)[k] =
                       Prim("type", call.origin.page, 0, 0, call.args.text[k], NoOptions)
              /\ \A k \in 1..ClickAt(call) : call.issued[k].op \notin {"type", "press"}
              /\ call.args.text = << >> => Len(call.issued) = ClickAt(call)

\* C11 happens: a type call with a text of two characters has returned.
C11_Witness ==
    \E c \in CallIds :
        /\ Succeeded(calls[c], "humanType")
        /\ Len(calls[c].args.text) = 2
        /\ calls[c].issued[Len(calls[c].issued)].key = calls[c].args.text[2]

\* C12: a successful fill call issues, in this order, the emulated click on
\* its selector, one press of Control+a, one press of Backspace and then one
\* keyboard.type per character of the text, in text order; no character is
\* typed before the Backspace and each of the two presses occurs once.
C12_FillOrder ==
    \A c \in CallIds :
        LET call == calls[c]
            keys == KeysAfterClick(call)
        IN  Succeeded(call, "humanFill") =>
              /\ ClickSucceeded(call)
              /\ ClickOrder(call)
              /\ Len(keys) = 2 + Len(call.args.text)
              /\ keys[1] = Prim("press", call.origin.page, 0, 0, "Control+a", NoOptions)
              /\ keys[2] = Prim("press", call.origin.page, 0, 0, "Backspace", NoOptions)
              /\ \A k \in 1..Len(call.args.text) :
                    keys[2 + k] =
                       Prim("type", call.origin.page, 0, 0, call.args.text[k], NoOptions)
              /\ \A k \in 1..Len(call.issued) :
                    /\ call.issued[k].op = "press" => k \in {ClickAt(call) + 1, ClickAt(call) + 2}
                    /\ call.issued[k].op = "type" => k > ClickAt(call) + 2

\* C12 happens: a fill call with a text of two characters has returned.
C12_Witness ==
    \E c \in CallIds :
        /\ Succeeded(calls[c], "humanFill")
        /\ Len(calls[c].args.text) = 2
        /\ calls[c].issued[Len(calls[c].issued)].op = "type"

\* The sum of the vertical deltas of the first k primitives of a frame.
RECURSIVE SumOfDeltas(_, _)
SumOfDeltas(issued, k) == IF k = 0 THEN 0 ELSE SumOfDeltas(issued, k - 1) + issued[k].y

SignOf(direction) == IF direction = "down" THEN 1 ELSE -1

C15_ScrollFrame ==
    [][/\ \A c \in CallIds :
             calls'[c].fn = "humanScroll" =>
                /\ \A k \in 1..Len(calls'[c].issued) : calls'[c].issued[k].op = "wheel"
                /\ calls'[c] # calls[c] => lastMousePosition' = lastMousePosition
       /\ lastMousePosition' # lastMousePosition =>
             \E c \in CallIds :
                /\ calls'[c] # calls[c]
                /\ calls[c].fn \in Emulated
                /\ calls[c].prop \in Intercepted]_vars

\* C15 happens: a scroll of three chunks has returned after an earlier call
\* moved lastMousePosition.
C15_Witness ==
    \E c \in CallIds :
        /\ Succeeded(calls[c], "humanScroll")
        /\ Len(calls[c].issued) = 3
        /\ lastMousePosition # Point(100 * Unit, 100 * Unit)

\* v lies in the middle eight tenths of the interval of length w from lo.
InMargins(v, lo, w) == 10 * (v - lo) >= w /\ 10 * (v - lo) <= 9 * w
\* The bounding box the actor gave for the element of a frame.
BoxFor(call) == BoxOf(ElementFor(call.args.selector))

\* C16: for every bounding box {x, y, W, H} and every draw, the target point
\* of a click lies in [x + 0.1 W, x + 0.9 W] x [y + 0.1 H, y + 0.9 H], and
\* the click primitive is issued at that target point.
C16_TargetInMargins ==
    \A c \in CallIds :
        LET call == calls[c]
        IN  (call.fn \in Emulated /\ call.path # << >>) =>
              /\ BoxFor(call).width >= 0 /\ BoxFor(call).height >= 0
              /\ InMargins(call.targetPoint.x, BoxFor(call).x, BoxFor(call).width)
              /\ InMargins(call.targetPoint.y, BoxFor(call).y, BoxFor(call).height)
              /\ ClickAt(call) > 0 =>
                    /\ call.issued[ClickAt(call)].x = call.targetPoint.x
                    /\ call.issued[ClickAt(call)].y = call.targetPoint.y

\* C16 happens: a click was issued on an element whose box has a fractional
\* and negative corner, with the largest draw for x and the smallest for y.
C16_Witness ==
    \E c \in CallIds :
        /\ calls[c].args.selector = "#off"
        /\ ClickAt(calls[c]) > 0
        /\ calls[c].targetPoint.x > BoxFor(calls[c]).x + 8 * (BoxFor(calls[c]).width \div 10)
        /\ 10 * (calls[c].targetPoint.y - BoxFor(calls[c]).y) = BoxFor(calls[c]).height

\* A coordinate that is a whole number of pixels.
IsInteger(v) == v % Unit = 0
\* The pointer primitives (moves, clicks) a frame issued.
PointerPrims(call, op) == {k \in 1..Len(call.issued) : call.issued[k].op = op}

\* C17 as stated: the x and y of every move and of every click primitive
\* issued by click, type and fill are integers.
C17_AllCoordinatesInteger ==
    \A c \in CallIds :
        calls[c].fn \in Emulated =>
           \A k \in PointerPrims(calls[c], "move") \cup PointerPrims(calls[c], "click") :
              IsInteger(calls[c].issued[k].x) /\ IsInteger(calls[c].issued[k].y)

\* C17 amended: the x and y of every move issued by click, type and fill are
\* integers; the click primitive is issued at the target point as it was
\* computed from the bounding box and the draw, which is not rounded.
C17_MoveCoordinatesInteger ==
    \A c \in CallIds :
        calls[c].fn \in Emulated =>
           /\ \A k \in PointerPrims(calls[c], "move") :
                 IsInteger(calls[c].issued[k].x) /\ IsInteger(calls[c].issued[k].y)
           /\ \A k \in PointerPrims(calls[c], "click") :
                 /\ calls[c].issued[k].x = calls[c].targetPoint.x
                 /\ calls[c].issued[k].y = calls[c].targetPoint.y

\* C17 happens: a click was issued at a point that is not whole pixels after
\* the moves of its path.
C17_Witness ==
    \E c \in CallIds :
        /\ PointerPrims(calls[c], "click") # {}
        /\ PointerPrims(calls[c], "move") # {}
        /\ ~IsInteger(calls[c].targetPoint.x)
        /\ ~IsInteger(calls[c].targetPoint.y)
\* The range a call is to use: the supplied one when there is one, else the
\* fixed default.
Expected(supplied, min, max) == IF supplied = Absent THEN [min |-> min, max |-> max] ELSE supplied
\* A delay drawn from a range: at least its minimum, below its maximum.
DrawnFrom(delay, range) == range.min <= delay /\ delay <= range.max
\* The same after a punctuation character: stretched by 1.5 to 2.5.
StretchedFrom(delay, range) ==
    /\ (range.min * 3) \div 2 <= delay
    /\ 2 * delay <= range.max * 5

\* C18: in every call of click, type, fill and humanScroll, each delay is
\* computed from the range the call's configuration supplies for it, and from
\* the default (mouse speed 100-300, typing delay 50-150, scroll delay 50-100)
\* only when the configuration has no such range, each range on its own; the
\* configuration the call works with is the one it was given.
C18_RangeUsed ==
    \A c \in CallIds :
        LET call == calls[c]
            given == call.origin.config
            speed == Expected(given.mouseSpeed, 100, 300)
            typingDelay == Expected(given.typingDelay, 50, 150)
            scrollDelay == Expected(given.scrollDelay, 50, 100)
        IN  /\ call.fn \in {"humanClick", "humanType", "humanFill", "humanScroll"}
                 => call.config = given
            /\ call.pc = "tMove" =>
                  \E v \in speed.min..speed.max, d \in AnyDelayDraws :
                      call.delay = MoveDelay(call.path[call.i], call.path[call.i + 1],
                                             [min |-> v, max |-> v], d)
            /\ call.pc \in {"tTypeChar", "tFillChar"} =>
                  IF call.text[call.k] \in Punctuation
                  THEN StretchedFrom(call.delay, typingDelay)
                  ELSE DrawnFrom(call.delay, typingDelay)
            /\ call.pc = "tWheel" => DrawnFrom(call.delay, scrollDelay)

\* C18 happens: a call whose configuration supplies the typing delay but no
\* mouse speed waits after a character, its moves behind it.
C18_Witness ==
    \E c \in CallIds :
        /\ calls[c].pc = "tTypeChar"
        /\ calls[c].origin.config.typingDelay # Absent
        /\ calls[c].origin.config.mouseSpeed = Absent
        /\ calls[c].delay > 0
        /\ \E k \in 1..Len(calls[c].issued) : calls[c].issued[k].op = "move"

\* The user code of the run was started.
Started(run) == run.user # "none"

\* C19: with Emulate Human Behavior on, every page $context.newPage() hands
\* to the user code is the humanized wrapper, with the node's configuration,
\* of a page that did not exist before, under exactly one wrapper; with the
\* flag off newPage is not replaced and hands out the page itself; and a
\* page the user code obtains in any other way is the page itself.
C19_OnlyNewPageIsHumanized ==
    \A i \in Items :
        LET run == node.runs[i]
            on == run.params.emulateHuman
        IN  /\ Started(run) => run.context.layers = (IF on THEN 1 ELSE 0)
            /\ \A k \in 1..Len(run.refs) :
                  LET held == run.refs[k]
                  IN  IF held.via = "newPage"
                      THEN /\ \A j \in 1..(k - 1) : run.refs[j].id # held.id
                           /\ IF on
                              THEN /\ held.ref = Proxy(Page(held.id), HumanConfig(TRUE))
                                   /\ held.wraps = 1
                              ELSE /\ held.ref = Page(held.id)
                                   /\ held.wraps = 0
                      ELSE /\ held.ref = Page(held.id)
                           /\ held.wraps = 0

\* C19 happens: with the flag on, the user code holds the wrapper newPage
\* returned and, from $context.pages(), the same page unwrapped.
C19_Witness ==
    \E i \in Items :
        LET run == node.runs[i]
        IN  /\ run.params.emulateHuman
            /\ Len(run.refs) = 2
            /\ run.refs[1].via = "newPage" /\ run.refs[1].ref.proxy
            /\ run.refs[2].via = "pages" /\ run.refs[2].id = run.refs[1].id
            /\ ~run.refs[2].ref.proxy

\* C20: with executionTimeout = 0 no timer is set and executeUserCode settles
\* as the user code does, with its result or its failure; with
\* executionTimeout > 0, a timer that fires while the user code has not
\* settled makes executeUserCode fail with 'Execution timeout exceeded', user
\* code that settles before the timer has fired makes it settle with the
\* result of the user code or fail with its failure, and once executeUserCode
\* has settled nothing changes its outcome, a later firing of the timer
\* included.
C20_Timeout ==
    [][\A i \in Items :
          LET run == node.runs[i]
              after == node'.runs[i]
              timeout == after.params.executionTimeout
              userSettles == run.user # "settled" /\ after.user = "settled"
              timerFires == run.timer = "armed" /\ after.timer = "fired"
          IN  /\ Started(after) /\ timeout = 0 =>
                    /\ after.timer = "none"
                    /\ after.outcome = after.executePromise
              /\ timerFires /\ run.user # "settled" =>
                    after.outcome = Rejected(TimeoutError(timeout))
              /\ userSettles /\ timeout > 0 /\ run.timer # "fired" =>
                    /\ after.outcome.state = after.executePromise.state
                    /\ after.outcome.value = after.executePromise.value
                    /\ after.outcome.reason.message = after.executePromise.reason.message
                    /\ after.outcome.reason # TimeoutError(timeout)
              /\ run.outcome.state # "pending" => after.outcome = run.outcome]_vars

\* C20 happens: the user code returned a result under a timeout, the timer
\* fired afterwards, and the result is still the outcome.
C20_Witness ==
    \E i \in Items :
        LET run == node.runs[i]
        IN  /\ run.params.executionTimeout > 0
            /\ run.timer = "fired"
            /\ run.executePromise.state = "fulfilled"
            /\ run.outcome = run.executePromise
            /\ run.outcome.value.kind = "array"

\* Every point of the path of the frame was issued to the page as a move, in
\* path order and with nothing in between.
AllPointsIssued(call) ==
    /\ call.path # << >>
    /\ Len(call.issued) >= call.planAt + Len(call.path)
    /\ \A k \in 1..Len(call.path) :
          call.issued[call.planAt + k] = MovePrim(call, call.path[k])

\* C21: lastMousePosition is the initial (100,100) or the end of a path some
\* call has completed; a step writes it only for a frame all of whose path
\* points were issued as moves, and writes the last point of that path; and a
\* call that fails before it has completed its path (at element resolution,
\* at the bounding box, at a move) leaves it as it was, at the value the path
\* was planned from if there was a path.
C21_WrittenAtEndOfRun ==
    [][/\ \/ lastMousePosition' = Point(100 * Unit, 100 * Unit)
          \/ \E c \in CallIds : calls'[c].moved = lastMousePosition'
       /\ lastMousePosition' # lastMousePosition =>
             \E c \in CallIds :
                 /\ calls[c].pc = "aMove"
                 /\ AllPointsIssued(calls'[c])
                 /\ calls'[c].i = Len(calls'[c].path)
                 /\ lastMousePosition' = calls'[c].path[Len(calls'[c].path)]
       /\ \A c \in CallIds :
             (calls[c].pc # "failed" /\ calls'[c].pc = "failed" /\ calls'[c].moved = NoPoint) =>
                 /\ lastMousePosition' = lastMousePosition
                 /\ calls'[c].path # << >> => lastMousePosition' = calls'[c].start]_vars

\* C21 happens: after a first call completed its path, a second call failed
\* at the second move of its path, and lastMousePosition is the end of the
\* first path.
C21_Witness ==
    \E b \in CallIds, c \in CallIds :
        /\ b < c
        /\ calls[b].moved # NoPoint
        /\ calls[c].pc = "failed"
        /\ calls[c].i = 1
        /\ calls[c].moved = NoPoint
        /\ lastMousePosition = calls[b].moved
        /\ lastMousePosition # Point(100 * Unit, 100 * Unit)

\* C22: moveMouseAlongPath issues the points of its path as moves, one move
\* per point and in path order, the first at once and each later one after
\* its delay; when it has returned, every point was issued and
\* lastMousePosition is the last point; for an empty path it issues nothing
\* and lastMousePosition is what it was.
C22_OneMovePerPoint ==
    \A c \in CallIds :
        LET call == calls[c]
        IN  call.fn = "moveMouseAlongPath" =>
              /\ Len(call.issued) <= Len(call.path)
              /\ \A k \in 1..Len(call.issued) : call.issued[k] = MovePrim(call, call.path[k])
              /\ call.pc = "aMove" => Len(call.issued) = call.i + 1
              /\ call.pc = "tMove" => Len(call.issued) = call.i /\ call.i >= 1 /\ call.delay >= 1
              /\ call.pc = "done" =>
                    /\ Len(call.issued) = Len(call.path)
                    /\ lastMousePosition =
                          (IF call.path = << >> THEN call.start ELSE call.path[Len(call.path)])
                    /\ call.moved = (IF call.path = << >> THEN NoPoint ELSE lastMousePosition)

\* C22 happens: after a call that drove a path to its end, a call with the
\* empty path has returned and lastMousePosition is still the end of the
\* first path.
C22_Witness ==
    \E b \in CallIds, c \in CallIds :
        /\ b < c
        /\ calls[b].moved # NoPoint
        /\ calls[c].fn = "moveMouseAlongPath"
        /\ calls[c].pc = "done"
        /\ calls[c].path = << >>
        /\ lastMousePosition = calls[b].moved
        /\ lastMousePosition # Point(100 * Unit, 100 * Unit)

\* The frame is a call of generateMousePath that has returned.
Planned(call) == call.fn = "generateMousePath" /\ call.pc = "done"
\* The distance between two coordinates is at most `most` halves of a pixel.
Near(a, b, most) == 2 * Abs(a - b) <= most * Unit

\* C23 as stated: the planner returns steps + 1 points, and its first and
\* last points are within 1 pixel of start and end on each axis, whole or
\* fractional as start and end may be.
C23_EndsWithinOne ==
    \A c \in CallIds :
        LET call == calls[c]
            last == call.path[Len(call.path)]
        IN  Planned(call) =>
              /\ Len(call.path) = call.k + 1
              /\ Near(call.path[1].x, call.start.x, 2) /\ Near(call.path[1].y, call.start.y, 2)
              /\ Near(last.x, call.targetPoint.x, 2) /\ Near(last.y, call.targetPoint.y, 2)

\* C23 amended: the planner returns steps + 1 points; its first and last
\* points are within 1 pixel of start and end on an axis on which start or
\* end is a whole number, and less than 1.5 pixels away in general, the
\* jittered coordinate being rounded.
C23_EndsWithinRounding ==
    \A c \in CallIds :
        LET call == calls[c]
            last == call.path[Len(call.path)]
            Close(a, b) == /\ IsInteger(b) => Near(a, b, 2)
                           /\ 2 * Abs(a - b) < 3 * Unit
        IN  Planned(call) =>
              /\ Len(call.path) = call.k + 1
              /\ Close(call.path[1].x, call.start.x) /\ Close(call.path[1].y, call.start.y)
              /\ Close(last.x, call.targetPoint.x) /\ Close(last.y, call.targetPoint.y)

\* C23 happens: a path to a fractional end was planned whose last point is
\* more than 1 pixel away from the end.
C23_Witness ==
    \E c \in CallIds :
        /\ Planned(calls[c])
        /\ ~IsInteger(calls[c].targetPoint.x)
        /\ ~Near(calls[c].path[Len(calls[c].path)].x, calls[c].targetPoint.x, 2)

\* The displacement of a control point from the point of the segment it
\* belongs to, the segment's direction being (dx, dy) and its length d: its
\* length is 0.2 d to 0.4 d, to the resolution of the model, and it makes
\* an angle of at most 45 degrees with the perpendicular of the segment
\* (its component along the segment is not longer than the one across it).
Displaced(cp, from, dx, dy, d) ==
    LET vx == cp.x - from.x
        vy == cp.y - from.y
        length == MathSqrt(vx * vx + vy * vy)
    IN  /\ 5 * (length + 3) >= d
        /\ 5 * (length - 3) <= 2 * d
        /\ Abs(vx * dx + vy * dy) <= Abs(vx * dy - vy * dx) + 3 * d

\* C24 as stated: at distance d > 0 the control points are the quarter and
\* the three-quarter point of the segment from start to end, each displaced
\* by 0.2 d to 0.4 d in a direction within 45 degrees of the perpendicular
\* to the segment, whatever the direction of travel.
C24_ControlPointsAcross ==
    \A c \in CallIds :
        LET call == calls[c]
            cps == ControlPoints(call.start, call.targetPoint, call.args)
            dx == call.targetPoint.x - call.start.x
            dy == call.targetPoint.y - call.start.y
            d == MathSqrt(dx * dx + dy * dy)
        IN  (Planned(call) /\ d > 0) =>
              /\ Displaced(cps.cp1, Point(call.start.x + dx \div 4, call.start.y + dy \div 4),
                           dx, dy, d)
              /\ Displaced(cps.cp2, Point(call.start.x + (3 * dx) \div 4,
                                          call.start.y + (3 * dy) \div 4), dx, dy, d)

\* C25: in type and fill, the delay after a character other than . , ! ?
\* space and newline is the base delay, drawn from the typing-delay range
\* [min, max]; after one of those characters it is the base delay times a
\* factor of 1.5 to 2.5, so it lies in [1.5 min, 2.5 max] and is not smaller
\* than the base delay (delays in whole milliseconds).
C25_DelayAfterCharacter ==
    \A c \in CallIds :
        LET call == calls[c]
            range == Expected(call.origin.config.typingDelay, 50, 150)
        IN  call.pc \in {"tTypeChar", "tFillChar"} =>
              \E d \in AnyDelayDraws :
                  LET base == randomBetween(range.min, range.max, d.r)
                  IN  /\ DrawnFrom(base, range)
                      /\ IF call.text[call.k] \in {".", ",", "!", "?", " ", "\n"}
                         THEN /\ (3 * base) \div 2 <= call.delay
                              /\ 2 * call.delay <= 5 * base
                              /\ call.delay >= base
                              /\ StretchedFrom(call.delay, range)
                         ELSE call.delay = base

\* C25 happens: a fill waits after a newline for longer than the maximum of
\* the typing-delay range, and a type waited after a plain character.
C25_Witness ==
    \E c \in CallIds :
        /\ calls[c].pc = "tFillChar"
        /\ calls[c].text[calls[c].k] = "\n"
        /\ calls[c].delay > Expected(calls[c].origin.config.typingDelay, 50, 150).max

\* The keystrokes of characters a frame has issued.
Typed(call) == SelectSeq(call.issued, LAMBDA prim : prim.op = "type")
\* The delays the typing loop can wait for after character k of the text.
DelaysAfter(call, k) ==
    {CharDelay(call.text[k], Expected(call.origin.config.typingDelay, 50, 150), d) :
        d \in AnyDelayDraws}
\* The frame is in the typing loop, of type or of fill, and waits.
WaitsInLoop(call) == call.pc \in {"tTypeChar", "tFillChar"}

\* C26: the loop of fill is the loop of type.  For every text and
\* configuration, a frame of either has issued, as keystrokes of characters,
\* exactly the first k characters of its text in text order, k being the
\* position of its loop, all of them when it has returned; and the delay
\* it waits for after character k is one of those the same rule gives for
\* both: the typing-delay range of the configuration, or the default,
\* stretched after the same special characters.
C26_SameLoop ==
    \A c \in CallIds :
        LET call == calls[c]
        IN  call.fn \in {"humanType", "humanFill"} =>
              /\ Typed(call) = [j \in 1..call.k |->
                                   Prim("type", call.origin.page, 0, 0, call.args.text[j], NoOptions)]
              /\ call.pc = "done" => call.k = Len(call.args.text)
              /\ WaitsInLoop(call) => call.delay \in DelaysAfter(call, call.k)

\* C26 happens: a fill with a supplied typing delay has returned after the
\* six characters of its text, as a type with the same text has before it.
C26_Witness ==
    \E b \in CallIds, c \in CallIds :
        /\ calls[b].pc = "fulfilled" /\ calls[b].prop = "type"
        /\ Succeeded(calls[c], "humanFill")
        /\ calls[c].origin.config.typingDelay # Absent
        /\ Len(Typed(calls[c])) = 6

\* The node is done with item i: the loop has gone past it, or execute has
\* returned or thrown.
Finished(i) ==
    /\ i < node.items
    /\ \/ node.itemIndex > i
       \/ node.pc \in {"returned", "thrown"} /\ node.itemIndex >= i

\* C28: a connection is closed by the node exactly once, before the next
\* item and before execute returns or throws.  For every item, close has
\* been called on its connection at most once and only if the connection
\* was established; when the node is done with the item (the loop is at a
\* later item, or execute has returned or thrown), an established connection
\* has had its one close, awaited until it settled, fulfilled or rejected,
\* whatever the outcome of the user code and the continue-on-fail setting;
\* and at most one connection is established and not yet through its close.
C28_ClosedOnce ==
    /\ \A i \in Items :
          LET run == node.runs[i]
          IN  /\ run.closes <= 1
              /\ (run.connection = "none") => run.closes = 0
              /\ (run.connection \in {"closing", "closed"}) <=> run.closes = 1
              /\ Finished(i) => run.connection \in {"none", "closed"}
              /\ (run.connection \in {"open", "closing"}) => node.itemIndex = i
    /\ Cardinality({i \in Items : node.runs[i].connection \in {"open", "closing"}}) <= 1

\* C28 happens: under continue-on-fail execute has returned after two
\* items, the first timed out and the user code of the second failed, and
\* the connection of each of the two has been closed once.
C28_Witness ==
    /\ node.pc = "returned"
    /\ node.continueOnFail
    /\ node.runs[0].outcome.state = "rejected"
    /\ node.runs[0].timer = "fired"
    /\ node.runs[1].executePromise.state = "rejected"
    /\ \A i \in {0, 1} : node.runs[i].connection = "closed" /\ node.runs[i].closes = 1

\* C28 also happens without continue-on-fail: execute has thrown at an item
\* whose user code succeeded too late, and its connection has been closed.
C28_WitnessThrown ==
    /\ node.pc = "thrown"
    /\ node.runs[node.itemIndex].timer = "fired"
    /\ node.runs[node.itemIndex].connection = "closed"

\* The entries of returnData that belong to item i, in order.
EntriesOf(i) == SelectSeq(node.returnData, LAMBDA e : e.pairedItem = i)

\* C30: the items are processed one after another in input order, and
\* every output item carries the index of its input item.  The entries of
\* returnData are in the order of their items and belong to items the loop
\* has reached; items after the current one are untouched.  An item that
\* succeeded has the entries of its normalized result.  With
\* continue-on-fail, an item that failed (no endpoint, no connection, an
\* error of the user code or a timeout) has exactly one entry, the error
\* entry, and execute never throws: it returns after all items.  Without
\* it, no item before the current one has failed, and when execute has
\* thrown, it has thrown the error of the current item, the later items
\* are untouched, and nothing is returned (the node has not returned).
C30_ItemsInOrder ==
    /\ \A k \in 1..Len(node.returnData) :
          /\ node.returnData[k].pairedItem \in 0..(node.items - 1)
          /\ node.returnData[k].pairedItem <= node.itemIndex
          /\ k > 1 => node.returnData[k - 1].pairedItem <= node.returnData[k].pairedItem
    /\ \A i \in Items :
          LET run == node.runs[i]
              failed == run.outcome.state # "fulfilled"
              results == normalizeResult(run.outcome.value)
          IN  /\ (node.itemIndex < i \/ node.pc = "idle") => run = NoRun /\ EntriesOf(i) = << >>
              /\ (Finished(i) /\ ~failed) =>
                    EntriesOf(i) = [k \in 1..Len(results) |->
                                       [kind |-> "json", json |-> results[k],
                                        error |-> NoJsError, pairedItem |-> i]]
              /\ (Finished(i) /\ failed /\ node.continueOnFail) =>
                    /\ Len(EntriesOf(i)) = 1
                    /\ EntriesOf(i)[1].kind = "error"
                    /\ EntriesOf(i)[1].error # NoJsError
                    /\ run.outcome.state = "rejected" => EntriesOf(i)[1].error = run.outcome.reason
              /\ (Finished(i) /\ failed /\ ~node.continueOnFail) =>
                    /\ node.pc = "thrown"
                    /\ node.itemIndex = i
                    /\ node.error.itemIndex = i
                    /\ EntriesOf(i) = << >>
    /\ node.pc = "returned" => node.itemIndex = node.items /\ node.error = NoNodeError
    /\ node.pc = "thrown" => ~node.continueOnFail /\ node.error # NoNodeError
    /\ node.continueOnFail => node.error = NoNodeError

\* C30 happens: with continue-on-fail, execute has returned the error entry
\* of the first item, which had no endpoint, followed by an entry of the
\* second item, which succeeded.
C30_Witness ==
    /\ node.pc = "returned"
    /\ node.continueOnFail
    /\ node.items = 2
    /\ node.runs[0].params.cdpEndpoint = ""
    /\ Len(node.returnData) >= 2
    /\ node.returnData[1].kind = "error" /\ node.returnData[1].pairedItem = 0
    /\ node.returnData[2].kind = "json" /\ node.returnData[2].pairedItem = 1

\* C30 also happens without continue-on-fail: execute has thrown at the
\* first of two items and the second was never started.
C30_WitnessThrown ==
    /\ node.pc = "thrown"
    /\ node.items = 2
    /\ node.itemIndex = 0
    /\ node.runs[1] = NoRun

\* The calls that have completed a path.
Completed == {b \in CallIds : calls[b].moved # NoPoint}

\* C27: lastMousePosition is one value for the process and is never reset.
\* With clicks made one after another, on any page of any item of any
\* execution of the node: when no path has been completed it is (100,100),
\* otherwise it is the last point of the path completed most recently, by
\* whatever page; a step changes it only by completing a path; and a click
\* plans its path from it: the start it records and the path it plans are
\* those of generateMousePath from lastMousePosition to its target.
C27_OneSessionState ==
    [][/\ IF Completed = {} THEN lastMousePosition = Point(100 * Unit, 100 * Unit)
          ELSE lastMousePosition =
                 calls[CHOOSE b \in Completed : \A a \in Completed : a <= b].moved
       /\ lastMousePosition' # lastMousePosition =>
             \E c \in CallIds :
                 /\ calls[c].pc = "aMove" /\ calls'[c].pc = "tHesitate"
                 /\ lastMousePosition' = calls[c].path[Len(calls[c].path)]
       /\ \A c \in CallIds :
             (calls[c].pc = "aBox" /\ calls'[c].pc = "aMove") =>
                 /\ calls'[c].start = lastMousePosition
                 /\ \E draw \in ClickDraws :
                       calls'[c].path = generateMousePath(lastMousePosition, calls'[c].targetPoint,
                                                          DEFAULTS.moveSteps, draw.path)]_vars

\* C27 happens: the click of the second item on its first page, a page no
\* pointer move was issued to before, on element #b, has planned its path
\* from the end of the path of an earlier click on element #a, which only
\* the first item clicks on, and not from (100,100).
C27_Witness ==
    /\ calls[1].pc = "fulfilled"
    /\ calls[1].moved.x >= 190 * Unit
    /\ calls[2].pc = "aMove"
    /\ calls[2].origin.page = <<1, 1>>
    /\ calls[2].origin.wrapped
    /\ calls[2].selector = "#b"
    /\ calls[2].start = calls[1].moved
    /\ calls[2].start # Point(100 * Unit, 100 * Unit)
    /\ lastMousePosition = calls[1].moved

\* C29: the timeout does not stop the user code or its click in flight.
\* No step of the node (a timer that fires, the catch and finally blocks,
\* the close of the browser, the next item) changes a call or
\* lastMousePosition; the step of the timer leaves the user code where it
\* is, holding its pages; and a call that waits before its next move or
\* before its click issues it when its delay is over, whatever the node has
\* done since.
C29_TimeoutStopsNothing ==
    [][/\ node' # node => calls' = calls /\ lastMousePosition' = lastMousePosition
       /\ \A i \in Items :
             (node.runs[i].timer = "armed" /\ node'.runs[i].timer = "fired") =>
                 /\ node'.runs[i].user = node.runs[i].user
                 /\ node'.runs[i].refs = node.runs[i].refs
                 /\ node'.runs[i].executePromise = node.runs[i].executePromise
       /\ \A c \in CallIds :
             /\ calls[c].pc = "tMove" => ENABLED MoveTimer(c)
             /\ calls[c].pc = "tHesitate" => ENABLED HesitateTimer(c)]_vars

\* C29 happens: the timer of the first item has fired and its connection
\* has been closed; the click of the second item has planned its path from
\* (100,100), so before any path was completed, and is moving; and the
\* click of the first item, still running, has now completed its path and
\* written lastMousePosition.
C29_Witness ==
    /\ node.itemIndex = 1
    /\ node.pc = "running"
    /\ node.runs[0].timer = "fired"
    /\ node.runs[0].connection = "closed"
    /\ node.runs[0].user = "running"
    /\ \E b \in CallIds, c \in CallIds :
          /\ calls[b].pc = "tHesitate"
          /\ calls[b].origin.page[1] = 0
          /\ calls[b].moved = lastMousePosition
          /\ calls[c].pc \in {"aMove", "tMove"}
          /\ calls[c].origin.page[1] = 1
          /\ calls[c].start = Point(100 * Unit, 100 * Unit)
          /\ calls[c].start # lastMousePosition

====
